---- MODULE Spec2Model ----
(***************************************************************************)
(* Model of the extremism monitor bot: the message risk classifier and the *)
(* per-author profile aggregator (src/src/ai/riskAnalyzer.js), the sqlite  *)
(* store (database.js), the Discord event handlers (src/src/index.js) and  *)
(* the HTTP API of the admin panel (admin/server.js).                      *)
(*                                                                         *)
(* Numbers.  Risk scores, totals, averages and thresholds are JavaScript   *)
(* numbers, that is IEEE-754 binary64 values, and every sum, product and   *)
(* quotient of the code is rounded as the processor rounds it (to nearest, *)
(* ties to even): 0.2 + 3 * 0.15 + 0.15 is 0.7999999999999999 and not 0.8. *)
(* A value is [m, e], standing for m * 2^e, with a mantissa m of 53 binary *)
(* digits held as a sequence of limbs, since the integers of TLC have 32.  *)
(* Counts (messageCount, highRiskCount, the flag counts) stay              *)
(* far below 2^53 and are plain integers.                                  *)
(***************************************************************************)
EXTENDS Integers, Sequences, FiniteSets, TLC

(***************************************************************************)
(* Bounds of the model.                                                    *)
(***************************************************************************)
\* largest messageCount of a profile drawn as the input of one update
MaxStartCount == 6
\* number of aggregator updates applied in a row from the all-zero profile
MaxUpdates == 7
\* number of tokens a message content is made of
MaxTokens == 3
\* number of MessageCreate events delivered
MaxMessages == 2
\* rows in the alerts table
MaxAlerts == 3
\* the last second the clock of CURRENT_TIMESTAMP reaches, counted from the start
MaxSecond == 1

(***************************************************************************)
(* Unbounded naturals: little-endian sequences of limbs of 15 binary       *)
(* digits, no leading zero limb, <<>> is zero.                             *)
(***************************************************************************)
Base == 2 ^ 15
LimbBits == CHOOSE k \in 1 .. 30 : 2 ^ k = Base
\* binary digits of the mantissa of a binary64 number
MantBits == 53

RECURSIVE BigNorm(_)
BigNorm(a) ==
    IF a = <<>> THEN <<>>
    ELSE IF a[Len(a)] = 0 THEN BigNorm(SubSeq(a, 1, Len(a) - 1))
    ELSE a

RECURSIVE BigOf(_)
BigOf(k) == IF k = 0 THEN <<>> ELSE <<k % Base>> \o BigOf(k \div Base)

\* the lowest limb of a and the limbs above it, zero read as 0 and <<>>
Limb(a) == IF a = <<>> THEN 0 ELSE Head(a)
Rest(a) == IF a = <<>> THEN <<>> ELSE Tail(a)

\* a + b + c (c is the carry)
RECURSIVE BigAddC(_, _, _)
BigAddC(a, b, c) ==
    IF a = <<>> /\ b = <<>> THEN (IF c = 0 THEN <<>> ELSE <<c>>)
    ELSE <<(Limb(a) + Limb(b) + c) % Base>>
         \o BigAddC(Rest(a), Rest(b), (Limb(a) + Limb(b) + c) \div Base)

BigAdd(a, b) == BigAddC(a, b, 0)

\* a - b - c for a >= b + c (c is the borrow, 0 or 1)
RECURSIVE BigSubC(_, _, _)
BigSubC(a, b, c) ==
    IF a = <<>> THEN <<>>
    ELSE <<(Head(a) + Base - Limb(b) - c) % Base>>
         \o BigSubC(Tail(a), Rest(b), IF Head(a) >= Limb(b) + c THEN 0 ELSE 1)

BigSub(a, b) == BigNorm(BigSubC(a, b, 0))

\* a * k + c for a small k (k < Base)
RECURSIVE BigMulSmallC(_, _, _)
BigMulSmallC(a, k, c) ==
    IF a = <<>> THEN BigOf(c)
    ELSE <<(Head(a) * k + c) % Base>> \o BigMulSmallC(Tail(a), k, (Head(a) * k + c) \div Base)

BigMulSmall(a, k) == BigNorm(BigMulSmallC(a, k, 0))

RECURSIVE BigMul(_, _)
BigMul(a, b) ==
    IF a = <<>> \/ b = <<>> THEN <<>>
    ELSE BigNorm(BigAdd(BigMulSmall(a, Head(b)),
                        IF Tail(b) = <<>> THEN <<>> ELSE <<0>> \o BigMul(a, Tail(b))))

\* -1, 0 or 1 as a < b, a = b, a > b
RECURSIVE BigCmpTop(_, _, _)
BigCmpTop(a, b, i) ==
    IF i = 0 THEN 0
    ELSE IF a[i] < b[i] THEN -1
    ELSE IF a[i] > b[i] THEN 1
    ELSE BigCmpTop(a, b, i - 1)

BigCmp(a, b) ==
    IF Len(a) < Len(b) THEN -1
    ELSE IF Len(a) > Len(b) THEN 1
    ELSE BigCmpTop(a, b, Len(a))

\* quotient (limbs not yet normalised) and remainder of a by a small k (k < Base):
\* the limb below the quotient and remainder hi of the limbs above it
BigDivModLimb(hi, limb, k) ==
    [q |-> <<(hi.r * Base + limb) \div k>> \o hi.q, r |-> (hi.r * Base + limb) % k]

RECURSIVE BigDivModSmall(_, _)
BigDivModSmall(a, k) ==
    IF a = <<>> THEN [q |-> <<>>, r |-> 0]
    ELSE BigDivModLimb(BigDivModSmall(Tail(a), k), Head(a), k)

BigDivSmall(a, k) == BigNorm(BigDivModSmall(a, k).q)
BigModSmall(a, k) == BigDivModSmall(a, k).r

RECURSIVE Pow2(_)
Pow2(k) == IF k = 0 THEN 1 ELSE 2 * Pow2(k - 1)

RECURSIVE BitsOf(_)
BitsOf(x) == IF x = 0 THEN 0 ELSE 1 + BitsOf(x \div 2)

\* number of binary digits of a
BigBits(a) == IF a = <<>> THEN 0 ELSE LimbBits * (Len(a) - 1) + BitsOf(a[Len(a)])

RECURSIVE Zeros(_)
Zeros(n) == IF n = 0 THEN <<>> ELSE <<0>> \o Zeros(n - 1)

\* a * 2^k
BigShl(a, k) ==
    IF a = <<>> THEN <<>>
    ELSE Zeros(k \div LimbBits) \o BigMulSmall(a, Pow2(k % LimbBits))

\* floor(a / 2^k)
BigShr(a, k) ==
    IF k \div LimbBits >= Len(a) THEN <<>>
    ELSE BigDivSmall(SubSeq(a, k \div LimbBits + 1, Len(a)), Pow2(k % LimbBits))

\* a mod 2^k = 0
BigLowZero(a, k) ==
    /\ \A i \in 1 .. k \div LimbBits : i > Len(a) \/ a[i] = 0
    /\ k \div LimbBits < Len(a) => a[k \div LimbBits + 1] % Pow2(k % LimbBits) = 0

BigOdd(a) == a # <<>> /\ a[1] % 2 = 1

\* quotient and remainder of a by d, the top limb of d at least Base / 2:
\* long division from the top limb of a down, one limb of the quotient at a
\* time; the trial digit comes from the two top limbs of the running
\* remainder, is at most two too large and is then corrected
RECURSIVE BigFit(_, _, _, _)
BigFit(r, d, q, p) ==
    IF BigCmp(p, r) > 0 THEN BigFit(r, d, q - 1, BigSub(p, d))
    ELSE [q |-> q, r |-> BigSub(r, p)]

\* the two top limbs of the running remainder, and the trial digit they give
BigTop(cur, n) == (IF Len(cur) > n THEN cur[n + 1] * Base ELSE 0) + cur[n]
BigTrial(top, limb) == IF top \div limb >= Base THEN Base - 1 ELSE top \div limb
BigFitTrial(cur, d, trial) == BigFit(cur, d, trial, BigMulSmall(d, trial))

RECURSIVE BigDivLoop(_, _, _, _, _)
\* the step of the division for limb i, with the running remainder cur
BigDivFitted(a, i, d, q, fit) == BigDivLoop(a, i - 1, d, fit.r, <<fit.q>> \o q)
BigDivStep(a, i, d, cur, q) ==
    IF BigCmp(cur, d) < 0 THEN BigDivLoop(a, i - 1, d, cur, <<0>> \o q)
    ELSE BigDivFitted(a, i, d, q,
                      BigFitTrial(cur, d, BigTrial(BigTop(cur, Len(d)), d[Len(d)])))
BigDivLoop(a, i, d, r, q) ==
    IF i = 0 THEN [q |-> BigNorm(q), r |-> r]
    ELSE BigDivStep(a, i, d, BigNorm(<<a[i]>> \o r), q)

BigDivMod(a, d) == BigDivLoop(a, Len(a), d, <<>>, <<>>)

\* the decimal digits of a, "" for zero
Digits == "0123456789"
Digit(k) == SubSeq(Digits, k + 1, k + 1)
RECURSIVE BigToDecimal(_)
BigToDecimal(a) ==
    IF a = <<>> THEN ""
    ELSE BigToDecimal(BigDivSmall(a, 10)) \o Digit(BigModSmall(a, 10))

(***************************************************************************)
(* JavaScript numbers that are zero or positive and normal (the code       *)
(* produces no negative number, no infinity and no NaN from the inputs     *)
(* examined): [m, e] stands for m * 2^e with m = 0 (and e = 0) or          *)
(* 2^52 <= m < 2^53, so a number has one representation and = is ===.      *)
(***************************************************************************)
DblZero == [m |-> <<>>, e |-> 0]

\* x = q * 2^s + (the s digits cut off): the cut is rounded up when it is more than
\* half of 2^s, or half of it with q odd
RoundsUp(x, s, q) == BigOdd(BigShr(x, s - 1)) /\ (BigOdd(q) \/ ~BigLowZero(x, s - 1))
\* r * 2^e, r of 53 digits or, after a carry, 2^53
Carried(r, e) ==
    IF BigBits(r) > MantBits THEN [m |-> BigShr(r, 1), e |-> e + 1] ELSE [m |-> r, e |-> e]
RoundCut(x, e, s, q) == Carried(IF RoundsUp(x, s, q) THEN BigAdd(q, <<1>>) ELSE q, e + s)
\* x of n binary digits
RoundBits(x, e, n) ==
    IF n <= MantBits THEN [m |-> BigShl(x, MantBits - n), e |-> e - (MantBits - n)]
    ELSE RoundCut(x, e, n - MantBits, BigShr(x, n - MantBits))

\* x * 2^e rounded to the nearest number, ties to the even mantissa
Round(x, e) == IF x = <<>> THEN DblZero ELSE RoundBits(x, e, BigBits(x))

\* the number of an integer k >= 0
DblOfInt(k) == Round(BigOf(k), 0)

\* hi + lo for hi.e >= lo.e
DblAddOrdered(hi, lo) ==
    IF hi.e - lo.e > MantBits + 2 THEN hi
    ELSE Round(BigAdd(BigShl(hi.m, hi.e - lo.e), lo.m), lo.e)

\* a + b
DblAdd(a, b) ==
    IF a.m = <<>> THEN b
    ELSE IF b.m = <<>> THEN a
    ELSE DblAddOrdered(IF a.e >= b.e THEN a ELSE b, IF a.e >= b.e THEN b ELSE a)

\* a * b
DblMul(a, b) ==
    IF a.m = <<>> \/ b.m = <<>> THEN DblZero
    ELSE Round(BigMul(a.m, b.m), a.e + b.e)

\* a / b for b # 0: the mantissas are divided to k = 54 or 55 binary digits and a
\* last digit tells whether anything was left over
DblDivRounded(dm, e) ==
    Round(IF dm.r = <<>> THEN BigShl(dm.q, 1) ELSE BigAdd(BigShl(dm.q, 1), <<1>>), e)
DblDivDigits(a, b, k) ==
    DblDivRounded(BigDivMod(BigShl(a.m, k + 4 * LimbBits - MantBits),
                            BigShl(b.m, 4 * LimbBits - MantBits)),
                  a.e - b.e - k - 1)
DblDiv(a, b) ==
    IF a.m = <<>> THEN DblZero
    ELSE DblDivDigits(a, b, IF BigCmp(a.m, b.m) < 0 THEN MantBits + 2 ELSE MantBits + 1)

\* -1, 0 or 1 as a < b, a = b, a > b
DblCmp(a, b) ==
    IF a.m = <<>> THEN (IF b.m = <<>> THEN 0 ELSE -1)
    ELSE IF b.m = <<>> THEN 1
    ELSE IF a.e < b.e THEN -1
    ELSE IF a.e > b.e THEN 1
    ELSE BigCmp(a.m, b.m)
\* a < b, a <= b
DblLess(a, b) == DblCmp(a, b) < 0
DblLeq(a, b) == DblCmp(a, b) <= 0
\* Math.min(a, b)
DblMin(a, b) == IF DblLess(b, a) THEN b ELSE a

\* the decimal literal n / d of the source text, n and d integers: a literal denotes
\* the number nearest to its value, which is what the correctly rounded division of
\* two exactly represented integers gives
Lit(n, d) == DblDiv(DblOfInt(n), DblOfInt(d))

DblOne == DblOfInt(1)

\* Number.prototype.toFixed(1): the integer n with n / 10 nearest to x (the larger
\* one of two), written with one digit after the point
ToFixed1Digits(digits) ==
    (IF Len(digits) <= 1 THEN "0" ELSE SubSeq(digits, 1, Len(digits) - 1))
    \o "." \o (IF digits = "" THEN "0" ELSE SubSeq(digits, Len(digits), Len(digits)))
ToFixed1(x) ==
    ToFixed1Digits(BigToDecimal(
        IF x.e >= 0 THEN BigShl(BigMulSmall(x.m, 10), x.e)
        ELSE BigShr(BigAdd(BigMulSmall(x.m, 20), BigShl(<<1>>, 0 - x.e)), 1 - x.e)))

\* the exact distance |a - b|, as an integer m and an exponent e (not rounded)
Distance(a, b) ==
    LET e == IF a.e < b.e THEN a.e ELSE b.e
        x == BigShl(a.m, a.e - e)
        y == BigShl(b.m, b.e - e)
    IN  [m |-> IF BigCmp(x, y) >= 0 THEN BigSub(x, y) ELSE BigSub(y, x), e |-> e]

\* x <= y for two such distances
DistanceLeq(x, y) ==
    LET e == IF x.e < y.e THEN x.e ELSE y.e
    IN  BigCmp(BigShl(x.m, x.e - e), BigShl(y.m, y.e - e)) <= 0

(***************************************************************************)
(* State.                                                                  *)
(*   env     process.env: the configuration read by the code              *)
(*   input   the arguments of the call under examination                   *)
(*   output  its result, [done |-> FALSE] before the call has returned     *)
(*   user_profiles, message_logs, alerts   the tables of the database      *)
(*   sqlite_sequence   the last AUTOINCREMENT id handed out, per table     *)
(*   clock     the second the system clock reads, counted from the start   *)
(*   client    the Discord client: "connecting" while client.login is      *)
(*             pending, "ready" once it is logged in, "exited" after       *)
(*             process.exit                                                *)
(*   arrived   the MessageCreate events delivered so far, in order         *)
(*   handlers  the handler of each delivered event: where it stands and    *)
(*             the locals it holds across its awaits                       *)
(*   channel   the set of embeds delivered to the alert channel            *)
(*   errors    the lines written by logger.error, in order                 *)
(***************************************************************************)
VARIABLES env, input, output,
          user_profiles, message_logs, alerts, sqlite_sequence,
          clock, client, arrived, handlers, channel, errors

callVars == <<input, output>>
dbVars == <<user_profiles, message_logs, alerts, sqlite_sequence>>
botVars == <<arrived, handlers, channel, errors>>
vars == <<env, input, output, user_profiles, message_logs, alerts, sqlite_sequence,
          clock, client, arrived, handlers, channel, errors>>

\* JavaScript null
Null == [type |-> "null"]

UpperCase == "ABCDEFGHIJKLMNOPQRSTUVWXYZ"
LowerCase == "abcdefghijklmnopqrstuvwxyz"
CharAt(s, i) == SubSeq(s, i, i)
IsUpper(c) == \E i \in 1 .. Len(UpperCase) : CharAt(UpperCase, i) = c

\* the position of the first occurrence of the character c in s, 0 when there is none
IndexOf(s, c) ==
    LET found == {i \in 1 .. Len(s) : CharAt(s, i) = c}
    IN  IF found = {} THEN 0 ELSE CHOOSE i \in found : \A j \in found : i <= j

\* String.prototype.split with a separator of one character
RECURSIVE Split(_, _)
Split(s, separator) ==
    LET at == IndexOf(s, separator)
    IN  IF at = 0 THEN <<s>>
        ELSE <<SubSeq(s, 1, at - 1)>> \o Split(SubSeq(s, at + 1, Len(s)), separator)

(***************************************************************************)
(* Configuration.  An environment variable is <<>> when unset and <<text>> *)
(* when set.  The thresholds examined are written as digits with at most   *)
(* one point, which is the form the configuration documents; texts that    *)
(* parseFloat reads as NaN are not examined.                               *)
(***************************************************************************)
RECURSIVE Pow10(_)
Pow10(k) == IF k = 0 THEN 1 ELSE 10 * Pow10(k - 1)

\* the integer a string of decimal digits denotes
RECURSIVE DecimalValue(_)
DecimalValue(digits) ==
    IF digits = "" THEN 0
    ELSE DecimalValue(SubSeq(digits, 1, Len(digits) - 1)) * 10
         + (IndexOf(Digits, CharAt(digits, Len(digits))) - 1)

\* parseFloat of such a text: the number nearest to the decimal value
parseFloat(text) ==
    LET point == IndexOf(text, ".")
        fraction == SubSeq(text, point + 1, Len(text))
    IN  IF point = 0 THEN DblOfInt(DecimalValue(text))
        ELSE Lit(DecimalValue(SubSeq(text, 1, point - 1) \o fraction), Pow10(Len(fraction)))

\* process.env.NAME || fallback, the fallback number as the text parseFloat makes of it
OrDefault(variable, fallback) ==
    IF variable = <<>> \/ variable = <<"">> THEN fallback ELSE variable[1]

DefaultLow == "0.3"
DefaultMedium == "0.6"
DefaultHigh == "0.8"

\* parseFloat(process.env.RISK_THRESHOLD_LOW || 0.3)
ThresholdLow == parseFloat(OrDefault(env.RISK_THRESHOLD_LOW, DefaultLow))
\* parseFloat(process.env.RISK_THRESHOLD_MEDIUM || 0.6)
ThresholdMedium == parseFloat(OrDefault(env.RISK_THRESHOLD_MEDIUM, DefaultMedium))
\* parseFloat(process.env.RISK_THRESHOLD_HIGH || 0.8)
ThresholdHigh == parseFloat(OrDefault(env.RISK_THRESHOLD_HIGH, DefaultHigh))

\* the environment with every threshold left to its default
DefaultEnv ==
    [RISK_THRESHOLD_LOW |-> <<>>, RISK_THRESHOLD_MEDIUM |-> <<>>, RISK_THRESHOLD_HIGH |-> <<>>,
     MESSAGE_SCAN_ENABLED |-> "true", USER_TRACKING_ENABLED |-> "true",
     ALERT_CHANNEL_ID |-> <<"alerts">>,
     ADMIN_PANEL_USERNAME |-> <<"admin">>, ADMIN_PANEL_PASSWORD |-> <<"secret">>]

\* the environments examined: the defaults and two sets of increasing thresholds
Envs ==
    { DefaultEnv,
      [DefaultEnv EXCEPT !.RISK_THRESHOLD_LOW = <<"0.1">>, !.RISK_THRESHOLD_MEDIUM = <<"0.19">>,
                         !.RISK_THRESHOLD_HIGH = <<"0.5">>] }

(***************************************************************************)
(* JavaScript values handed to analyzeMessage: a string is                 *)
(* [type |-> "string", str |-> s]; null, undefined, numbers and objects    *)
(* are the other records.  In strings the characters "^" and "~" stand for *)
(* the two CJK characters of the last toxicity keyword, "@" for the        *)
(* capital letter E with acute accent (U+00C9) and "&" for its small form  *)
(* (U+00E9).                                                               *)
(***************************************************************************)
Undefined == [type |-> "undefined"]
Str(s) == [type |-> "string", str |-> s]
Num(k) == [type |-> "number", num |-> k]
Obj == [type |-> "object"]

\* typeof content
TypeOf(v) == IF v = Null THEN "object" ELSE v.type

\* !content
Falsy(v) ==
    \/ v = Null
    \/ v = Undefined
    \/ (v.type = "string" /\ v.str = "")
    \/ (v.type = "number" /\ v.num = 0)

\* the value a failed call leaves in place of a result
Raised(error) == [raised |-> error]

\* an uppercase letter outside A-Z, and its lowercase form
UpperCaseOther == "@"
LowerCaseOther == "&"

\* String.prototype.toLowerCase
LowerChar(c) ==
    IF IsUpper(c)
    THEN CharAt(LowerCase, CHOOSE i \in 1 .. Len(UpperCase) : CharAt(UpperCase, i) = c)
    ELSE IF c = UpperCaseOther THEN LowerCaseOther
    ELSE c

RECURSIVE toLowerCase(_)
toLowerCase(s) == IF s = "" THEN "" ELSE LowerChar(Head(s)) \o toLowerCase(Tail(s))

\* String.prototype.includes
Includes(s, keyword) ==
    \E i \in 1 .. Len(s) - Len(keyword) + 1 : SubSeq(s, i, i + Len(keyword) - 1) = keyword

(***************************************************************************)
(* riskAnalyzer.js RISK_PATTERNS, in the order of Object.entries.          *)
(***************************************************************************)
Categories == <<"violence", "hate", "radicalization", "threats", "toxicity">>

RISK_PATTERNS ==
    [violence |->
        <<"kill", "murder", "attack", "destroy", "bomb", "weapon", "gun", "shoot",
          "stab", "assault", "hurt", "harm", "fight", "war", "blood", "death">>,
     hate |->
        <<"hate", "racist", "nazi", "supremacist", "genocide", "ethnic cleansing",
          "inferior", "subhuman", "vermin", "scum", "trash">>,
     radicalization |->
        <<"jihad", "crusade", "holy war", "martyr", "extremist", "radical",
          "revolution", "uprising", "overthrow", "manifesto", "propaganda">>,
     threats |->
        <<"threat", "threaten", "going to", "will kill", "watch out", "pay for",
          "revenge", "retaliate", "get you", "coming for">>,
     toxicity |->
        <<"kys", "suicide", "die", "worthless", "pathetic", "loser", "idiot",
          "stupid", "dumb", "trash", "garbage", "^~">>]

Abs(a) == IF a < 0 THEN 0 - a ELSE a

(***************************************************************************)
(* Message classifier, riskAnalyzer.js analyzeMessage.  sentimentScore is  *)
(* the score the sentiment package returns for the content, an integer.    *)
(***************************************************************************)
\* the number literals of analyzeMessage
SentimentDivisor == DblOfInt(20)
SentimentCap == Lit(3, 10)
KeywordWeight == Lit(15, 100)
CategoryCap == Lit(5, 10)
CapsLimit == Lit(5, 10)
CapsRisk == Lit(1, 10)
SpamRisk == Lit(5, 100)

\* the result for absent, empty or non-string content
ZeroAssessment == [riskScore |-> DblZero, sentiment |-> 0, flags |-> <<>>, categories |-> <<>>]

\* the sentiment risk with Math.min(..., 0.3) left out
SentimentRisk_NoCap(sentimentScore) ==
    IF sentimentScore < 0 THEN DblDiv(DblOfInt(Abs(sentimentScore)), SentimentDivisor)
    ELSE DblZero
\* sentimentScore < 0 ? Math.min(Math.abs(sentimentScore) / 20, 0.3) : 0
SentimentRisk(sentimentScore) ==
    IF sentimentScore < 0
    THEN DblMin(DblDiv(DblOfInt(Abs(sentimentScore)), SentimentDivisor), SentimentCap)
    ELSE DblZero

\* the keywords of a category found in the lowercased content, in lexicon order
MatchedWords(lowerContent, category) ==
    SelectSeq(RISK_PATTERNS[category], LAMBDA keyword : Includes(lowerContent, keyword))

\* the category contribution without its cap of 0.5
CategoryRisk_Uncapped(matchCount) == DblMul(DblOfInt(matchCount), KeywordWeight)
\* Math.min(matchCount * 0.15, 0.5)
CategoryRisk(matchCount) == DblMin(DblMul(DblOfInt(matchCount), KeywordWeight), CategoryCap)

\* the categories with at least one match, in lexicon order
MatchedCategories(lowerContent) ==
    SelectSeq(Categories, LAMBDA category : Len(MatchedWords(lowerContent, category)) > 0)

\* totalRisk += categoryRisk, for each matched category in turn
RECURSIVE SumCategoryRisk(_, _, _)
SumCategoryRisk(totalRisk, lowerContent, categories) ==
    IF categories = <<>> THEN totalRisk
    ELSE SumCategoryRisk(
             DblAdd(totalRisk, CategoryRisk(Len(MatchedWords(lowerContent, Head(categories))))),
             lowerContent, Tail(categories))

\* (content.match(/[A-Z]/g) || []).length
RECURSIVE CountUpper(_)
CountUpper(s) ==
    IF s = "" THEN 0 ELSE (IF IsUpper(Head(s)) THEN 1 ELSE 0) + CountUpper(Tail(s))

\* capsRatio > 0.5 && content.length > 10, for a content that is not empty
ExcessiveCaps(content) ==
    /\ DblLess(CapsLimit, DblDiv(DblOfInt(CountUpper(content)), DblOfInt(Len(content))))
    /\ Len(content) > 10

\* the characters the regular expression's "." does not match
LineTerminators == {"\n", "\r"}

\* /(.)\1{4,}/.test(content)
SpamPattern(content) ==
    \E i \in 1 .. Len(content) - 4 :
        /\ CharAt(content, i) \notin LineTerminators
        /\ \A j \in 1 .. 4 : CharAt(content, i + j) = CharAt(content, i)

\* [...new Set(flags)]
RECURSIVE Dedupe(_)
Dedupe(flags) ==
    IF flags = <<>> THEN <<>>
    ELSE LET rest == Dedupe(SubSeq(flags, 1, Len(flags) - 1))
             last == flags[Len(flags)]
         IN  IF \E i \in DOMAIN rest : rest[i] = last THEN rest ELSE Append(rest, last)

\* Math.min(totalRisk, 1) left out
Normalize_None(totalRisk) == totalRisk
\* Math.min(totalRisk, 1)
Normalize(totalRisk) == DblMin(totalRisk, DblOne)

\* lines 43-102; a call of toLowerCase on a value that is no string raises
AnalyzeString(content, sentimentScore, now) ==
    IF content.type # "string" THEN Raised("TypeError")
    ELSE
    LET lowerContent == toLowerCase(content.str)
        matched == MatchedCategories(lowerContent)
        caps == ExcessiveCaps(content.str)
        spam == SpamPattern(content.str)
        afterCategories == SumCategoryRisk(SentimentRisk(sentimentScore), lowerContent, matched)
        afterCaps == IF caps THEN DblAdd(afterCategories, CapsRisk) ELSE afterCategories
        totalRisk == IF spam THEN DblAdd(afterCaps, SpamRisk) ELSE afterCaps
        flags == matched \o (IF caps THEN <<"excessive_caps">> ELSE <<>>)
                         \o (IF spam THEN <<"spam_pattern">> ELSE <<>>)
    IN  [riskScore |-> Normalize(totalRisk),
         sentiment |-> sentimentScore,
         flags |-> Dedupe(flags),
         categories |->
            [category \in {matched[i] : i \in DOMAIN matched} |->
                [count |-> Len(MatchedWords(lowerContent, category)),
                 words |-> MatchedWords(lowerContent, category)]],
         analyzedAt |-> [iso |-> now]]

\* analyzeMessage with the typeof test left out of the guard
analyzeMessage_NoTypeCheck(content, sentimentScore, now) ==
    IF Falsy(content) THEN ZeroAssessment ELSE AnalyzeString(content, sentimentScore, now)
\* analyzeMessage(content), called when the clock reads now
analyzeMessage(content, sentimentScore, now) ==
    IF Falsy(content) \/ TypeOf(content) # "string"
    THEN ZeroAssessment
    ELSE AnalyzeString(content, sentimentScore, now)

(***************************************************************************)
(* Profile aggregator, riskAnalyzer.js updateRiskProfile.  flagHistory, an *)
(* object, is the sequence of its [key, value] members in the order the    *)
(* keys were first assigned, which is the order JSON.stringify writes.     *)
(***************************************************************************)
decayFactor == Lit(95, 100)
TrendFactor == Lit(12, 10)
TrendMinCount == 5

\* the profile updateRiskProfile builds when it is handed none
NewProfile ==
    [messageCount |-> 0, totalRiskScore |-> DblZero, averageRiskScore |-> DblZero,
     highRiskCount |-> 0, flagHistory |-> <<>>, lastAnalyzed |-> Null, trendingUp |-> FALSE]

HasKey(object, key) == \E i \in DOMAIN object : object[i].key = key

\* flagHistory[flag], a missing entry (or a zero one) read as 0
FlagCount(flagHistory, flag) ==
    IF HasKey(flagHistory, flag)
    THEN flagHistory[CHOOSE i \in DOMAIN flagHistory : flagHistory[i].key = flag].value
    ELSE 0

\* flagHistory[flag] = value: an existing key keeps its place, a new one goes last
SetKey(object, k, v) ==
    IF HasKey(object, k)
    THEN [i \in DOMAIN object |-> IF object[i].key = k THEN [key |-> k, value |-> v] ELSE object[i]]
    ELSE Append(object, [key |-> k, value |-> v])

\* the flag loop with the count restarted at 1 instead of incremented
RECURSIVE UpdateFlagHistory_Restart(_, _)
UpdateFlagHistory_Restart(flagHistory, flags) ==
    IF flags = <<>> THEN flagHistory
    ELSE UpdateFlagHistory_Restart(SetKey(flagHistory, Head(flags), 1), Tail(flags))
\* for (const flag of analysis.flags) { ... flagHistory[flag] += 1 }
RECURSIVE UpdateFlagHistory(_, _)
UpdateFlagHistory(flagHistory, flags) ==
    IF flags = <<>> THEN flagHistory
    ELSE UpdateFlagHistory(
             SetKey(flagHistory, Head(flags), FlagCount(flagHistory, Head(flags)) + 1),
             Tail(flags))

\* userProfile.messageCount += 1, with the increment left out once a profile has messages
IncrementCount_OnlyFirst(messageCount) == IF messageCount = 0 THEN 1 ELSE messageCount
\* userProfile.messageCount += 1
IncrementCount(messageCount) == messageCount + 1

\* the total with the decay of the previous total left out
DecayedTotal_NoDecay(total, riskScore) == DblAdd(total, riskScore)
\* userProfile.totalRiskScore * decayFactor + analysis.riskScore
DecayedTotal(total, riskScore) == DblAdd(DblMul(total, decayFactor), riskScore)

\* the average with the "+ 1" of the denominator left out
DecayedAverage_NoPlusOne(total, messageCount) ==
    DblDiv(total, DblMul(DblOfInt(messageCount), decayFactor))
\* userProfile.totalRiskScore / (userProfile.messageCount * decayFactor + 1)
DecayedAverage(total, messageCount) ==
    DblDiv(total, DblAdd(DblMul(DblOfInt(messageCount), decayFactor), DblOne))

\* the high-risk test with the boundary excluded
IsHighRisk_Strict(riskScore) == DblLess(ThresholdHigh, riskScore)
\* analysis.riskScore >= parseFloat(process.env.RISK_THRESHOLD_HIGH || 0.8)
IsHighRisk(riskScore) == DblLeq(ThresholdHigh, riskScore)

\* the trend gate opened one message early
TrendEvaluated_Early(messageCount) == messageCount >= TrendMinCount
\* if (userProfile.messageCount > 5): the trend is evaluated on the updated count
TrendEvaluated(messageCount) == messageCount > TrendMinCount

\* the trend test with the factor 1.2 left out
TrendingUp_NoMargin(riskScore, average) == DblLess(average, riskScore)
\* recentRisk > historicalAverage * 1.2
TrendingUp(riskScore, average) == DblLess(DblMul(average, TrendFactor), riskScore)

\* updateRiskProfile(userProfile, analysis); now is the clock reading of line 156
updateRiskProfile(userProfile, analysis, now) ==
    LET p == IF userProfile = Null THEN NewProfile ELSE userProfile
        messageCount == IncrementCount(p.messageCount)
        total == DecayedTotal(p.totalRiskScore, analysis.riskScore)
        average == DecayedAverage(total, messageCount)
    IN  [p EXCEPT
           !.messageCount = messageCount,
           !.totalRiskScore = total,
           !.averageRiskScore = average,
           !.highRiskCount = IF IsHighRisk(analysis.riskScore) THEN @ + 1 ELSE @,
           !.flagHistory = UpdateFlagHistory(@, analysis.flags),
           !.trendingUp = IF TrendEvaluated(messageCount)
                          THEN TrendingUp(analysis.riskScore, average) ELSE @,
           !.lastAnalyzed = [iso |-> now]]

\* the object the caller handed in, as the caller finds it after the call: the
\* assignments of lines 125-156 are made to that object, which is also the one
\* returned; null stays null (the fresh object is bound to the parameter only)
ArgumentAfter(userProfile, analysis, now) ==
    IF userProfile = Null THEN Null ELSE updateRiskProfile(userProfile, analysis, now)

(***************************************************************************)
(* riskAnalyzer.js getRiskLevel.                                           *)
(***************************************************************************)
\* getRiskLevel with the upper bound of each band included
getRiskLevel_InclusiveUpper(riskScore) ==
    IF DblLeq(riskScore, ThresholdLow) THEN "Low"
    ELSE IF DblLeq(riskScore, ThresholdMedium) THEN "Medium"
    ELSE IF DblLeq(riskScore, ThresholdHigh) THEN "High"
    ELSE "Critical"
\* getRiskLevel(riskScore)
getRiskLevel(riskScore) ==
    IF DblLess(riskScore, ThresholdLow) THEN "Low"
    ELSE IF DblLess(riskScore, ThresholdMedium) THEN "Medium"
    ELSE IF DblLess(riskScore, ThresholdHigh) THEN "High"
    ELSE "Critical"

(***************************************************************************)
(* database.js: the tables.                                                *)
(*   user_profiles  user_id -> row, for the ids that have a row; rowid is  *)
(*                  the order of insertion                                 *)
(*   message_logs, alerts  sequences of rows in the order of insertion     *)
(* A CURRENT_TIMESTAMP text is [sql |-> second], the text of               *)
(* new Date().toISOString() is [iso |-> second].  No row is ever deleted.  *)
(***************************************************************************)
\* Array.prototype.join
RECURSIVE Join(_, _)
Join(strings, separator) ==
    IF strings = <<>> THEN ""
    ELSE IF Len(strings) = 1 THEN strings[1]
    ELSE strings[1] \o separator \o Join(Tail(strings), separator)

\* a JSON string; the keys and flags examined need no escape
Quote(s) == "\"" \o s \o "\""

\* JSON.stringify of an array of strings
JSONstringifyArray(strings) ==
    "[" \o Join([i \in DOMAIN strings |-> Quote(strings[i])], ",") \o "]"

\* JSON.stringify of an object whose values are arrays of strings (the details of an alert)
JSONstringifyDetails(object) ==
    "{" \o Join([i \in DOMAIN object |->
                    Quote(object[i].key) \o ":" \o JSONstringifyArray(object[i].value)], ",")
        \o "}"

\* JSON.stringify of a flag-count object: the members in the order of the keys
JSONstringify(object) ==
    "{" \o Join([i \in DOMAIN object |->
                    Quote(object[i].key) \o ":" \o ToString(object[i].value)], ",")
        \o "}"

\* JSON.parse of the text of a flag-count object
JSONparse(text) ==
    LET inner == SubSeq(text, 2, Len(text) - 1)
        members == IF inner = "" THEN <<>> ELSE Split(inner, ",")
    IN  [i \in DOMAIN members |->
            LET pair == Split(members[i], ":")
            IN  [key |-> SubSeq(pair[1], 2, Len(pair[1]) - 1), value |-> DecimalValue(pair[2])]]

\* CURRENT_TIMESTAMP
Timestamp(now) == [sql |-> now]

\* the column defaults of CREATE TABLE user_profiles
DefaultRow(rowid, now) ==
    [rowid |-> rowid, message_count |-> 0, total_risk_score |-> DblZero,
     average_risk_score |-> DblZero, high_risk_count |-> 0, flag_history |-> "{}",
     trending_up |-> 0, last_analyzed |-> Null,
     created_at |-> Timestamp(now), updated_at |-> Timestamp(now)]

\* the object of getUserProfile with flag_history left unread
RowToProfile_NoFlags(userId, row) ==
    [userId |-> userId,
     messageCount |-> row.message_count,
     totalRiskScore |-> row.total_risk_score,
     averageRiskScore |-> row.average_risk_score,
     highRiskCount |-> row.high_risk_count,
     flagHistory |-> <<>>,
     trendingUp |-> (row.trending_up = 1),
     lastAnalyzed |-> row.last_analyzed,
     createdAt |-> row.created_at,
     updatedAt |-> row.updated_at]
\* the object getUserProfile builds from a row
RowToProfile(userId, row) ==
    [userId |-> userId,
     messageCount |-> row.message_count,
     totalRiskScore |-> row.total_risk_score,
     averageRiskScore |-> row.average_risk_score,
     highRiskCount |-> row.high_risk_count,
     flagHistory |-> JSONparse(row.flag_history),
     trendingUp |-> (row.trending_up = 1),
     lastAnalyzed |-> row.last_analyzed,
     createdAt |-> row.created_at,
     updatedAt |-> row.updated_at]

\* the object of createUserProfile with one message already counted
FreshProfile_Counted(userId, now) ==
    [userId |-> userId, messageCount |-> 1, totalRiskScore |-> DblZero,
     averageRiskScore |-> DblZero, highRiskCount |-> 0, flagHistory |-> <<>>,
     trendingUp |-> FALSE, lastAnalyzed |-> Null,
     createdAt |-> [iso |-> now], updatedAt |-> [iso |-> now]]
\* the object createUserProfile returns
FreshProfile(userId, now) ==
    [userId |-> userId, messageCount |-> 0, totalRiskScore |-> DblZero,
     averageRiskScore |-> DblZero, highRiskCount |-> 0, flagHistory |-> <<>>,
     trendingUp |-> FALSE, lastAnalyzed |-> Null,
     createdAt |-> [iso |-> now], updatedAt |-> [iso |-> now]]

\* createUserProfile with INSERT OR REPLACE: an existing row goes back to the defaults
InsertOrIgnoreProfile_Replace(table, userId, now) ==
    [u \in DOMAIN table \cup {userId} |->
        IF u = userId
        THEN DefaultRow(IF u \in DOMAIN table THEN table[u].rowid
                        ELSE Cardinality(DOMAIN table) + 1, now)
        ELSE table[u]]
\* createUserProfile: INSERT OR IGNORE INTO user_profiles (user_id)
InsertOrIgnoreProfile(table, userId, now) ==
    IF userId \in DOMAIN table THEN table
    ELSE [u \in DOMAIN table \cup {userId} |->
             IF u = userId THEN DefaultRow(Cardinality(DOMAIN table) + 1, now) ELSE table[u]]

\* getUserProfile: the returned object
getUserProfile(table, userId, now) ==
    IF userId \in DOMAIN table THEN RowToProfile(userId, table[userId])
    ELSE FreshProfile(userId, now)

\* updateUserProfile with the message_count column left out of the UPDATE
updateUserProfile_NoCount(table, userId, profile, now) ==
    IF userId \notin DOMAIN table THEN table
    ELSE [table EXCEPT ![userId] =
            [@ EXCEPT !.total_risk_score = profile.totalRiskScore,
                      !.average_risk_score = profile.averageRiskScore,
                      !.high_risk_count = profile.highRiskCount,
                      !.flag_history = JSONstringify(profile.flagHistory),
                      !.trending_up = IF profile.trendingUp THEN 1 ELSE 0,
                      !.last_analyzed = profile.lastAnalyzed,
                      !.updated_at = Timestamp(now)]]
\* updateUserProfile with the WHERE clause left out of the UPDATE
updateUserProfile_AllRows(table, userId, profile, now) ==
    [u \in DOMAIN table |->
        [table[u] EXCEPT !.message_count = profile.messageCount,
                         !.total_risk_score = profile.totalRiskScore,
                         !.average_risk_score = profile.averageRiskScore,
                         !.high_risk_count = profile.highRiskCount,
                         !.flag_history = JSONstringify(profile.flagHistory),
                         !.trending_up = IF profile.trendingUp THEN 1 ELSE 0,
                         !.last_analyzed = profile.lastAnalyzed,
                         !.updated_at = Timestamp(now)]]
\* updateUserProfile: UPDATE user_profiles SET ... WHERE user_id = ?
updateUserProfile(table, userId, profile, now) ==
    IF userId \notin DOMAIN table THEN table
    ELSE [table EXCEPT ![userId] =
            [@ EXCEPT !.message_count = profile.messageCount,
                      !.total_risk_score = profile.totalRiskScore,
                      !.average_risk_score = profile.averageRiskScore,
                      !.high_risk_count = profile.highRiskCount,
                      !.flag_history = JSONstringify(profile.flagHistory),
                      !.trending_up = IF profile.trendingUp THEN 1 ELSE 0,
                      !.last_analyzed = profile.lastAnalyzed,
                      !.updated_at = Timestamp(now)]]

\* FOREIGN KEY (user_id) REFERENCES user_profiles(user_id), enforced by better-sqlite3
ForeignKeyFails(table, userId) == userId \notin DOMAIN table

\* the row logMessage inserts
LogRow(id, messageId, userId, content, riskScore, flags, now) ==
    [id |-> id, message_id |-> messageId, user_id |-> userId, content |-> content,
     risk_score |-> riskScore, flags |-> JSONstringifyArray(flags),
     created_at |-> Timestamp(now)]

\* logMessage with INSERT OR REPLACE: the row of a logged id is replaced by a new one
logMessage_Replace(table, logs, sequence, messageId, userId, content, riskScore, flags, now) ==
    IF ForeignKeyFails(table, userId) THEN Raised("FOREIGN KEY constraint failed")
    ELSE [message_logs |->
              Append(SelectSeq(logs, LAMBDA row : row.message_id # messageId),
                     LogRow(sequence.message_logs + 1, messageId, userId, content,
                            riskScore, flags, now)),
          sqlite_sequence |-> [sequence EXCEPT !.message_logs = @ + 1]]
\* logMessage: INSERT OR IGNORE INTO message_logs, message_id UNIQUE.  The id of the
\* new row is taken before the constraints are looked at: an insert that is
\* ignored keeps it taken, an insert that fails gives it back.
logMessage(table, logs, sequence, messageId, userId, content, riskScore, flags, now) ==
    IF \E i \in DOMAIN logs : logs[i].message_id = messageId
    THEN [message_logs |-> logs,
          sqlite_sequence |-> [sequence EXCEPT !.message_logs = @ + 1]]
    ELSE IF ForeignKeyFails(table, userId) THEN Raised("FOREIGN KEY constraint failed")
    ELSE [message_logs |->
              Append(logs, LogRow(sequence.message_logs + 1, messageId, userId, content,
                                  riskScore, flags, now)),
          sqlite_sequence |-> [sequence EXCEPT !.message_logs = @ + 1]]

\* the rows in the order a query gives them; Precedes is a strict total order
Sorted(rows, Precedes(_, _)) ==
    [k \in DOMAIN rows |->
        rows[CHOOSE i \in DOMAIN rows :
                Cardinality({j \in DOMAIN rows : Precedes(rows[j], rows[i])}) = k - 1]]

\* LIMIT ?: a negative limit is no limit
Limit(rows, limit) ==
    IF limit < 0 \/ limit >= Len(rows) THEN rows ELSE SubSeq(rows, 1, limit)

\* the values of the limit parameters left out of a call
HighRiskMessagesLimit == 50
HighRiskUsersLimit == 100
UserMessagesLimit == 100
AlertsLimit == 50

\* getHighRiskMessages: SELECT * FROM message_logs WHERE risk_score >= ? (the high
\* threshold) ORDER BY created_at DESC LIMIT ?; the rows are read backwards along
\* the index on created_at, so rows of one second come newest first
getHighRiskMessages(logs, limit) ==
    Limit(Sorted(SelectSeq(logs, LAMBDA row : DblLeq(ThresholdHigh, row.risk_score)),
                 LAMBDA a, b : \/ a.created_at.sql > b.created_at.sql
                               \/ a.created_at.sql = b.created_at.sql /\ a.id > b.id),
          limit)

\* r1 comes before r2 in ORDER BY average_risk_score DESC, high_risk_count DESC; the
\* sort keeps rows that tie in the order of their rowid
RiskierRow(r1, r2) ==
    \/ DblLess(r2.average_risk_score, r1.average_risk_score)
    \/ /\ r1.average_risk_score = r2.average_risk_score
       /\ \/ r1.high_risk_count > r2.high_risk_count
          \/ r1.high_risk_count = r2.high_risk_count /\ r1.rowid < r2.rowid

\* the rows of user_profiles with their keys, in the order of rowid
ProfileRows(table) ==
    [k \in 1 .. Cardinality(DOMAIN table) |->
        LET u == CHOOSE u \in DOMAIN table : table[u].rowid = k
        IN  [user_id |-> u, row |-> table[u]]]

\* getHighRiskUsers: SELECT * FROM user_profiles ORDER BY average_risk_score DESC,
\* high_risk_count DESC LIMIT ?, each row as a profile object
getHighRiskUsers(table, limit) ==
    LET rows == Limit(Sorted(ProfileRows(table), LAMBDA a, b : RiskierRow(a.row, b.row)), limit)
    IN  [k \in DOMAIN rows |->
            [userId |-> rows[k].user_id,
             messageCount |-> rows[k].row.message_count,
             totalRiskScore |-> rows[k].row.total_risk_score,
             averageRiskScore |-> rows[k].row.average_risk_score,
             highRiskCount |-> rows[k].row.high_risk_count,
             flagHistory |-> JSONparse(rows[k].row.flag_history),
             trendingUp |-> (rows[k].row.trending_up = 1),
             lastAnalyzed |-> rows[k].row.last_analyzed]]

\* a comes before b in ORDER BY created_at DESC when the rows found are sorted
\* afterwards: rows of one second stay in the order of their ids
NewerRow(a, b) ==
    \/ a.created_at.sql > b.created_at.sql
    \/ a.created_at.sql = b.created_at.sql /\ a.id < b.id

\* getUserMessages: SELECT * FROM message_logs WHERE user_id = ? ORDER BY created_at
\* DESC LIMIT ?
getUserMessages(logs, userId, limit) ==
    Limit(Sorted(SelectSeq(logs, LAMBDA row : row.user_id = userId), NewerRow), limit)

\* getUnacknowledgedAlerts: SELECT * FROM alerts WHERE acknowledged = 0 ORDER BY
\* created_at DESC LIMIT ?
getUnacknowledgedAlerts(alertRows, limit) ==
    Limit(Sorted(SelectSeq(alertRows, LAMBDA row : row.acknowledged = 0), NewerRow), limit)

\* createAlert: INSERT INTO alerts (message_id, user_id, alert_type, risk_score,
\* details); acknowledged takes its default 0
createAlert(table, alertRows, sequence, messageId, userId, alertType, riskScore, details, now) ==
    IF ForeignKeyFails(table, userId) THEN Raised("FOREIGN KEY constraint failed")
    ELSE [alerts |->
              Append(alertRows,
                     [id |-> sequence.alerts + 1, message_id |-> messageId, user_id |-> userId,
                      alert_type |-> alertType, risk_score |-> riskScore,
                      details |-> JSONstringifyDetails(details), acknowledged |-> 0,
                      created_at |-> Timestamp(now)]),
          sqlite_sequence |-> [sequence EXCEPT !.alerts = @ + 1]]

\* acknowledgeAlert with the WHERE clause left out of the UPDATE
acknowledgeAlert_All(alertRows, alertId) ==
    [i \in DOMAIN alertRows |-> [alertRows[i] EXCEPT !.acknowledged = 1]]
\* acknowledgeAlert: UPDATE alerts SET acknowledged = 1 WHERE id = ?
acknowledgeAlert(alertRows, alertId) ==
    [i \in DOMAIN alertRows |->
        IF alertRows[i].id = alertId THEN [alertRows[i] EXCEPT !.acknowledged = 1]
        ELSE alertRows[i]]

\* getStats: the four COUNT(*) queries
getStats(table, logs, alertRows) ==
    [totalUsers |-> Cardinality(DOMAIN table),
     totalMessages |-> Len(logs),
     totalAlerts |-> Len(alertRows),
     unacknowledgedAlerts |-> Len(SelectSeq(alertRows, LAMBDA row : row.acknowledged = 0))]

(***************************************************************************)
(* index.js: the Discord client and its event handlers.  A message carries *)
(* the score the sentiment package gives its content.  In the title of the *)
(* embed "!" stands for the warning sign (U+26A0 U+FE0F).                  *)
(***************************************************************************)
UserIds == {"u1", "u2"}

\* what a message can say, with the score the sentiment package gives it
MessageTexts ==
    { [content |-> "hello ", sentimentScore |-> 0],
      [content |-> "I HATE nazi trash ", sentimentScore |-> -4],
      [content |-> "kill murder attack destroy ", sentimentScore |-> -9] }

\* aiAgent.analyzeMessage(message.content) for each of the texts and each reading of
\* the clock, evaluated once
AnalysisOf ==
    [text \in MessageTexts, now \in 0 .. MaxSecond |->
        analyzeMessage(Str(text.content), text.sentimentScore, now)]

\* the authors of messages: two members and a bot
Authors == { [id |-> "u1", bot |-> FALSE, tag |-> "ann#0001"],
             [id |-> "u2", bot |-> FALSE, tag |-> "bob#0002"],
             [id |-> "bot", bot |-> TRUE, tag |-> "helper#0003"] }

Member(userId) == CHOOSE author \in Authors : author.id = userId

\* the message with the k-th id, in the one channel of the one guild
Message(k, author, text) ==
    [id |-> "m" \o ToString(k), author |-> author,
     channel |-> [id |-> "general"],
     url |-> "https://discord.com/channels/guild/general/m" \o ToString(k),
     content |-> text.content, sentimentScore |-> text.sentimentScore]

\* the environments the bot is run in
BotEnvs ==
    { DefaultEnv,
      [DefaultEnv EXCEPT !.MESSAGE_SCAN_ENABLED = "false"],
      [DefaultEnv EXCEPT !.ALERT_CHANNEL_ID = <<>>],
      [DefaultEnv EXCEPT !.RISK_THRESHOLD_LOW = <<"0.1">>, !.RISK_THRESHOLD_MEDIUM = <<"0.2">>,
                         !.RISK_THRESHOLD_HIGH = <<"0.4">>, !.ALERT_CHANNEL_ID = <<>>,
                         !.USER_TRACKING_ENABLED = "false"],
      [DefaultEnv EXCEPT !.MESSAGE_SCAN_ENABLED = "TRUE", !.USER_TRACKING_ENABLED = "TRUE"] }

\* database.initialize() has run on an empty file, no event has been delivered, no
\* call is under examination
BotIdle ==
    /\ user_profiles = <<>>
    /\ message_logs = <<>>
    /\ alerts = <<>>
    /\ sqlite_sequence = [message_logs |-> 0, alerts |-> 0]
    /\ clock = 0
    /\ arrived = <<>>
    /\ handlers = <<>>
    /\ channel = {}
    /\ errors = <<>>

Init ==
    /\ env \in BotEnvs
    /\ input = [call |-> "none"]
    /\ output = [done |-> FALSE]
    /\ client = "connecting"
    /\ BotIdle

\* the reading of the clock: CURRENT_TIMESTAMP and new Date(), to the second
Now == clock

\* a second goes by
Tick ==
    /\ client # "exited"
    /\ clock < MaxSecond
    /\ clock' = clock + 1
    /\ UNCHANGED <<env, callVars, dbVars, client, botVars>>

\* the largest number of error events of the client examined
MaxClientErrors == 1

\* the lines of the error log written at a place of the code
Logged(at) == SelectSeq(errors, LAMBDA line : line.at = at)

\* client.once(Events.ClientReady): the login has gone through
ClientReady ==
    /\ client = "connecting"
    /\ client' = "ready"
    /\ UNCHANGED <<env, callVars, dbVars, clock, botVars>>

\* client.login(...).catch: the failure is logged and the process exits
LoginFails ==
    /\ client = "connecting"
    /\ client' = "exited"
    /\ errors' = Append(errors, [at |-> "Failed to connect to Discord:"])
    /\ UNCHANGED <<env, callVars, dbVars, clock, arrived, handlers, channel>>

\* client.on(Events.Error)
ClientError ==
    /\ client # "exited"
    /\ Len(Logged("Discord client error:")) < MaxClientErrors
    /\ errors' = Append(errors, [at |-> "Discord client error:"])
    /\ UNCHANGED <<env, callVars, dbVars, clock, client, arrived, handlers, channel>>

\* process.on('SIGINT'): the client is destroyed, the database closed, the process exits
Shutdown ==
    /\ client # "exited"
    /\ client' = "exited"
    /\ UNCHANGED <<env, callVars, dbVars, clock, botVars>>

\* the alert test with the author's average in place of the message's score
ShouldAlert_OnAverage(analysis, updatedProfile) ==
    DblLeq(ThresholdHigh, updatedProfile.averageRiskScore)
\* analysis.riskScore >= parseFloat(process.env.RISK_THRESHOLD_HIGH || 0.8)
ShouldAlert(analysis, updatedProfile) == DblLeq(ThresholdHigh, analysis.riskScore)

Hundred == DblOfInt(100)

\* `${(x * 100).toFixed(1)}%`
Percent(x) == ToFixed1(DblMul(x, Hundred)) \o "%"

\* message.content.substring(0, 200) + (message.content.length > 200 ? '...' : '')
Preview(content) ==
    IF Len(content) > 200 THEN SubSeq(content, 1, 200) \o "..." ELSE content

\* the embed sendAlert builds for the message of a handler, at clock reading now
Embed(h, now) ==
    [color |-> 16711680,
     title |-> "! High Risk Content Detected",
     fields |->
        << [name |-> "User",
            value |-> "<@" \o h.message.author.id \o "> (" \o h.message.author.tag \o ")",
            inline |-> TRUE],
           [name |-> "Risk Score", value |-> Percent(h.analysis.riskScore), inline |-> TRUE],
           [name |-> "User Total Risk", value |-> Percent(h.updatedProfile.totalRiskScore),
            inline |-> TRUE],
           [name |-> "Channel", value |-> "<#" \o h.message.channel.id \o ">", inline |-> TRUE],
           [name |-> "Flags",
            value |-> IF h.analysis.flags = <<>> THEN "None" ELSE Join(h.analysis.flags, ", "),
            inline |-> FALSE],
           [name |-> "Message Preview", value |-> Preview(h.message.content),
            inline |-> FALSE],
           [name |-> "Link", value |-> "[Jump to Message](" \o h.message.url \o ")",
            inline |-> FALSE] >>,
     timestamp |-> [iso |-> now],
     footer |-> [text |-> "Extremism Monitor Bot"]]

\* the early returns of the handler with the test of the author left out
Ignores_ScanOnly(message) == env.MESSAGE_SCAN_ENABLED # "true"
\* if (message.author.bot) return; if (process.env.MESSAGE_SCAN_ENABLED !== 'true') return;
Ignores(message) == message.author.bot \/ env.MESSAGE_SCAN_ENABLED # "true"

\* lines 55-63 of the handler, reached with the outcome of logMessage: a throw is caught
\* and logged, otherwise sendAlert is called for a score at the threshold and suspends
\* at its first await unless no alert channel is configured
AfterLogMessage(message, analysis, updatedProfile, logged) ==
    IF "raised" \in DOMAIN logged
    THEN /\ UNCHANGED <<message_logs, sqlite_sequence>>
         /\ errors' = Append(errors, [at |-> "Error analyzing message:",
                                      message |-> Len(arrived) + 1])
         /\ handlers' = Append(handlers,
               [pc |-> "failed", message |-> message, threw |-> "logMessage"])
    ELSE /\ message_logs' = logged.message_logs
         /\ sqlite_sequence' = logged.sqlite_sequence
         /\ errors' = errors
         /\ handlers' = Append(handlers,
               [pc |-> IF ~ShouldAlert(analysis, updatedProfile) THEN "done"
                       ELSE IF env.ALERT_CHANNEL_ID \in {<<>>, <<"">>} THEN "done"
                       ELSE "fetch",
                message |-> message, analysis |-> analysis,
                updatedProfile |-> updatedProfile,
                sendAlert |-> ShouldAlert(analysis, updatedProfile),
                now |-> Now])

\* lines 46-53 of the handler, reached with the table updateUserProfile has written
AfterUpdateUserProfile(message, analysis, updatedProfile, updated) ==
    /\ user_profiles' = updated
    /\ AfterLogMessage(message, analysis, updatedProfile,
                       logMessage(updated, message_logs, sqlite_sequence, message.id,
                                  message.author.id, message.content, analysis.riskScore,
                                  analysis.flags, Now))

\* line 44 of the handler, reached with the profile updateRiskProfile has returned
AfterUpdateRiskProfile(message, analysis, updatedProfile) ==
    AfterUpdateUserProfile(message, analysis, updatedProfile,
        updateUserProfile(InsertOrIgnoreProfile(user_profiles, message.author.id, Now),
                          message.author.id, updatedProfile, Now))

\* lines 39-43 of the handler, reached with the assessment analyzeMessage has returned
AfterAnalyzeMessage(message, analysis) ==
    AfterUpdateRiskProfile(message, analysis,
        updateRiskProfile(getUserProfile(user_profiles, message.author.id, Now),
                          analysis, Now))

\* client.on(Events.MessageCreate): the handler up to its first await, or to its end
MessageCreate(message) ==
    /\ client = "ready"
    /\ Len(arrived) < MaxMessages
    /\ arrived' = Append(arrived, message)
    /\ UNCHANGED <<env, callVars, alerts, clock, client, channel>>
    /\ IF Ignores(message)
       THEN /\ handlers' = Append(handlers, [pc |-> "skipped", message |-> message])
            /\ UNCHANGED <<user_profiles, message_logs, sqlite_sequence, errors>>
       ELSE AfterAnalyzeMessage(message,
                AnalysisOf[[content |-> message.content,
                            sentimentScore |-> message.sentimentScore], Now])

\* the message with the next id, by any author, with any of the texts
NewMessage ==
    \E author \in Authors, text \in MessageTexts :
        MessageCreate(Message(Len(arrived) + 1, author, text))

\* sendAlert: await client.channels.fetch(alertChannelId) settles; with a channel the
\* embed is built and handed to alertChannel.send
ChannelFetched(i, outcome) ==
    /\ client # "exited"
    /\ handlers[i].pc = "fetch"
    /\ handlers' = [handlers EXCEPT ![i] =
                       IF outcome = "channel"
                       THEN [pc |-> "send", message |-> @.message, analysis |-> @.analysis,
                             updatedProfile |-> @.updatedProfile, sendAlert |-> @.sendAlert,
                             now |-> @.now, embed |-> Embed(@, Now)]
                       ELSE [@ EXCEPT !.pc = "done"]]
    /\ errors' = IF outcome = "rejected"
                 THEN Append(errors, [at |-> "Error sending alert:", message |-> i])
                 ELSE errors
    /\ UNCHANGED <<env, callVars, dbVars, clock, client, arrived, channel>>

FetchSettles ==
    \E i \in DOMAIN handlers, outcome \in {"channel", "null", "rejected"} :
        ChannelFetched(i, outcome)

\* sendAlert whose failure takes the message's log row back out
AlertSent_RollsBack(i, delivered) ==
    /\ client # "exited"
    /\ handlers[i].pc = "send"
    /\ handlers' = [handlers EXCEPT ![i].pc = "done"]
    /\ channel' = IF delivered THEN channel \cup {handlers[i].embed} ELSE channel
    /\ errors' = IF delivered THEN errors
                 ELSE Append(errors, [at |-> "Error sending alert:", message |-> i])
    /\ message_logs' = IF delivered THEN message_logs
                       ELSE SelectSeq(message_logs,
                                      LAMBDA row : row.message_id # handlers[i].message.id)
    /\ UNCHANGED <<env, callVars, user_profiles, alerts, sqlite_sequence, clock, client,
                   arrived>>
\* sendAlert that also stores an alert row for the message it reports
AlertSent_Records(i, delivered) ==
    /\ client # "exited"
    /\ handlers[i].pc = "send"
    /\ handlers' = [handlers EXCEPT ![i].pc = "done"]
    /\ channel' = IF delivered THEN channel \cup {handlers[i].embed} ELSE channel
    /\ errors' = IF delivered THEN errors
                 ELSE Append(errors, [at |-> "Error sending alert:", message |-> i])
    /\ LET created == createAlert(user_profiles, alerts, sqlite_sequence,
                                  handlers[i].message.id, handlers[i].message.author.id,
                                  "high_risk", handlers[i].analysis.riskScore,
                                  <<[key |-> "flags", value |-> handlers[i].analysis.flags]>>,
                                  Now)
       IN  /\ alerts' = created.alerts
           /\ sqlite_sequence' = created.sqlite_sequence
    /\ UNCHANGED <<env, callVars, user_profiles, message_logs, clock, client, arrived>>
\* sendAlert: await alertChannel.send({ embeds: [embed] }) settles
AlertSent(i, delivered) ==
    /\ client # "exited"
    /\ handlers[i].pc = "send"
    /\ handlers' = [handlers EXCEPT ![i].pc = "done"]
    /\ channel' = IF delivered THEN channel \cup {handlers[i].embed} ELSE channel
    /\ errors' = IF delivered THEN errors
                 ELSE Append(errors, [at |-> "Error sending alert:", message |-> i])
    /\ UNCHANGED <<env, callVars, dbVars, clock, client, arrived>>

SendSettles == \E i \in DOMAIN handlers, delivered \in BOOLEAN : AlertSent(i, delivered)

\* client.on(Events.GuildMemberAdd)
GuildMemberAdd(memberId) ==
    /\ client = "ready"
    /\ env.USER_TRACKING_ENABLED = "true"
    /\ user_profiles' = InsertOrIgnoreProfile(user_profiles, memberId, Now)
    /\ UNCHANGED <<env, callVars, message_logs, alerts, sqlite_sequence, clock, client,
                   botVars>>

MemberJoins == \E memberId \in UserIds : GuildMemberAdd(memberId)

Next ==
    \/ ClientReady
    \/ LoginFails
    \/ ClientError
    \/ Shutdown
    \/ Tick
    \/ NewMessage
    \/ FetchSettles
    \/ SendSettles
    \/ MemberJoins

Spec == Init /\ [][Next]_vars

(***************************************************************************)
(* One call of analyzeMessage (SpecAnalyze).  A string content is the      *)
(* concatenation of at most MaxTokens tokens.                              *)
(***************************************************************************)
Tokens ==
    { "hello ", "kill murder attack destroy ", "I HATE nazi trash ", "threaten ",
      "AAAAAA", "\n\n\n\n\n", "holy war ", "@T@ @@ " }

RECURSIVE Texts(_)
Texts(k) ==
    IF k = 0 THEN {""}
    ELSE LET shorter == Texts(k - 1) IN shorter \cup {t \o w : t \in shorter, w \in Tokens}

Contents == {Null, Undefined, Num(0), Num(5), Obj} \cup {Str(t) : t \in Texts(MaxTokens)}

SentimentScores == { -9, -6, -4, -2, -1, 0, 3 }

\* the harnesses call the functions of a process that is up and connected
Called ==
    /\ output = [done |-> FALSE]
    /\ client = "ready"
    /\ BotIdle

InitAnalyze ==
    /\ env = DefaultEnv
    /\ input \in [call : {"analyzeMessage"}, content : Contents,
                  sentimentScore : SentimentScores]
    /\ Called

ApplyAnalyze ==
    /\ ~output.done
    /\ input.call = "analyzeMessage"
    /\ output' = [done |-> TRUE, val |-> analyzeMessage(input.content, input.sentimentScore, Now)]
    /\ UNCHANGED <<env, input, dbVars, clock, client, botVars>>

NextAnalyze == ApplyAnalyze

SpecAnalyze == InitAnalyze /\ [][NextAnalyze]_vars

(***************************************************************************)
(* One aggregator update of an arbitrary profile (SpecUpdate).             *)
(***************************************************************************)
\* the score of a message with three terms of hate, one of toxicity and a sentiment
\* of -4: 0.2 + 0.44999999999999996 + 0.15 = 0.7999999999999999
NearlyHigh ==
    AnalysisOf[[content |-> "I HATE nazi trash ", sentimentScore |-> -4], 0].riskScore

\* a count of messages well past the trend gate
LongHistory == 15

\* the flag arrays of the assessments examined (analyzeMessage removes duplicates)
FlagArrays == { <<>>, <<"violence">>, <<"violence", "hate">>, <<"hate", "excessive_caps">> }
FlagHistories ==
    { <<>>,
      <<[key |-> "violence", value |-> 2]>>,
      <<[key |-> "spam_pattern", value |-> 3], [key |-> "hate", value |-> 0]>> }
StartScores == { DblZero, Lit(19, 100), Lit(5, 10), NearlyHigh, Lit(8, 10), Lit(85, 100), DblOne }
StartTotals == { DblZero, Lit(5, 2), DblOfInt(3) }
StartAverages == { DblZero, Lit(3, 10) }

StartProfiles ==
    {Null} \cup
    [messageCount : 0 .. MaxStartCount \cup {LongHistory}, totalRiskScore : StartTotals,
     averageRiskScore : StartAverages, highRiskCount : {0, 1},
     flagHistory : FlagHistories, lastAnalyzed : {Null}, trendingUp : BOOLEAN]

Analyses == [riskScore : StartScores, flags : FlagArrays]

InitUpdate ==
    /\ env \in Envs
    /\ input \in [call : {"updateRiskProfile"}, userProfile : StartProfiles,
                  analysis : Analyses]
    /\ Called

\* the call is made in the process of the bot and reads its clock
ApplyUpdate ==
    /\ ~output.done
    /\ input.call = "updateRiskProfile"
    /\ output' = [done |-> TRUE,
                  val |-> updateRiskProfile(input.userProfile, input.analysis, Now),
                  arg |-> ArgumentAfter(input.userProfile, input.analysis, Now)]
    /\ UNCHANGED <<env, input, dbVars, clock, client, botVars>>

NextUpdate == ApplyUpdate

SpecUpdate == InitUpdate /\ [][NextUpdate]_vars

(***************************************************************************)
(* Aggregator updates applied one after another, each to the result of the *)
(* one before, from the all-zero profile: any scores (SpecChain), or one   *)
(* score repeated (SpecRepeat).                                            *)
(***************************************************************************)
ChainScores == { DblZero, Lit(3, 10), Lit(8, 10), DblOne }

\* the scores 0, 0.01, ..., 1
Hundredths == { Lit(k, 100) : k \in 0 .. 100 }

InitChain ==
    /\ env = DefaultEnv
    /\ input = [call |-> "none"]
    /\ output = [done |-> FALSE, val |-> NewProfile]
    /\ client = "ready"
    /\ BotIdle

\* one more update of the profile the chain has reached, with the given assessment
ChainStep(analysis) ==
    /\ output.val.messageCount < MaxUpdates
    /\ input' = [call |-> "updateRiskProfile", userProfile |-> output.val,
                 analysis |-> analysis]
    /\ output' = [done |-> TRUE, val |-> updateRiskProfile(output.val, analysis, Now)]
    /\ UNCHANGED <<env, dbVars, clock, client, botVars>>

ChainUpdate == \E r \in ChainScores : ChainStep([riskScore |-> r, flags |-> <<>>])

NextChain == ChainUpdate

SpecChain == InitChain /\ [][NextChain]_vars

\* the score to repeat is drawn at the start and kept in input.analysis
InitRepeat ==
    /\ env = DefaultEnv
    /\ input \in [call : {"none"}, analysis : [riskScore : Hundredths, flags : {<<>>}]]
    /\ output = [done |-> FALSE, val |-> NewProfile]
    /\ client = "ready"
    /\ BotIdle

RepeatUpdate == ChainStep(input.analysis)

NextRepeat == RepeatUpdate

SpecRepeat == InitRepeat /\ [][NextRepeat]_vars

\* the fields of the profile handed to the update, an absent profile read as all-zero
Before == IF input.userProfile = Null THEN NewProfile ELSE input.userProfile
After == output.val
Updated == output.done /\ input.call = "updateRiskProfile"
FlagNames == {"violence", "hate", "radicalization", "threats", "toxicity",
              "excessive_caps", "spam_pattern"}
InFlags(f) == \E i \in DOMAIN input.analysis.flags : input.analysis.flags[i] = f
Keys(object) == {object[i].key : i \in DOMAIN object}

\* C5: an update adds exactly 1 to flagHistory[f] (a missing entry counted as 0) for
\* every flag f of the assessment, and leaves every other entry as it was; the keys
\* there were keep their places and no key is listed twice.
C5_FlagHistory ==
    Updated =>
        /\ Keys(After.flagHistory) = Keys(Before.flagHistory) \cup {f \in FlagNames : InFlags(f)}
        /\ Len(After.flagHistory) = Cardinality(Keys(After.flagHistory))
        /\ \A i \in DOMAIN Before.flagHistory :
             After.flagHistory[i].key = Before.flagHistory[i].key
        /\ \A f \in FlagNames :
             FlagCount(After.flagHistory, f)
               = FlagCount(Before.flagHistory, f) + (IF InFlags(f) THEN 1 ELSE 0)

C5_Witness ==
    /\ Updated
    /\ input.userProfile # Null
    /\ input.userProfile.flagHistory = <<[key |-> "violence", value |-> 2]>>
    /\ input.analysis.flags = <<"violence", "hate">>
    /\ After.flagHistory = <<[key |-> "violence", value |-> 3], [key |-> "hate", value |-> 1]>>

\* C6: an update adds 1 to highRiskCount if and only if the assessment's riskScore is
\* at least the high threshold (the threshold itself included), else leaves it.
C6_HighRiskCount ==
    Updated =>
        After.highRiskCount
          = Before.highRiskCount
            + (IF DblCmp(input.analysis.riskScore, ThresholdHigh) >= 0 THEN 1 ELSE 0)

C6_Witness ==
    /\ Updated
    /\ env.RISK_THRESHOLD_HIGH = <<>>
    /\ input.analysis.riskScore = parseFloat("0.8")
    /\ After.highRiskCount = Before.highRiskCount + 1

\* C7 as stated: with messageCount at most 5 before the update, trendingUp keeps its
\* value.  The code evaluates the trend on the updated count, so a profile with exactly
\* 5 messages is already past the gate.
C7_GateAtFiveBefore ==
    (Updated /\ Before.messageCount <= 5) => After.trendingUp = Before.trendingUp

\* C7, amended: with messageCount at most 5 after the update (at most 4 before it),
\* trendingUp keeps its value whatever the assessment's score.
C7_GateAtFiveAfter ==
    (Updated /\ Before.messageCount + 1 <= 5) => After.trendingUp = Before.trendingUp

C7_Witness ==
    /\ Updated
    /\ input.userProfile # Null
    /\ input.userProfile.messageCount = 4
    /\ input.userProfile.trendingUp
    /\ input.analysis.riskScore = DblZero
    /\ After.trendingUp

\* C8: in every profile reached from the all-zero profile by aggregator updates with
\* scores in [0,1], averageRiskScore lies in [0,1].
C8_AverageInUnitInterval ==
    /\ DblLeq(DblZero, output.val.averageRiskScore)
    /\ DblLeq(output.val.averageRiskScore, DblOne)

C8_Witness ==
    /\ Updated
    /\ After.messageCount >= 6
    /\ DblLess(Lit(3, 4), After.averageRiskScore)
    /\ DblLeq(After.averageRiskScore, DblOne)

\* C9: while one score r is repeated from the all-zero profile, averageRiskScore
\* approaches r: no further update leaves the average farther from r than it was.
C9_AverageApproachesScore ==
    (Updated /\ Before.messageCount >= 1) =>
        DistanceLeq(Distance(input.analysis.riskScore, After.averageRiskScore),
                    Distance(input.analysis.riskScore, Before.averageRiskScore))

Analyzed == output.done /\ input.call = "analyzeMessage"

\* C2: analyzeMessage returns a riskScore in [0,1] for every input, however many
\* categories, terms and behavioural flags add up.
C2_ScoreInUnitInterval ==
    Analyzed => (DblCmp(output.val.riskScore, DblZero) >= 0
                   /\ DblCmp(output.val.riskScore, DblOne) <= 0)

C2_Witness ==
    /\ Analyzed
    /\ input.sentimentScore < 0
    /\ Len(output.val.flags) >= 4
    /\ output.val.categories["violence"].count = 4
    /\ output.val.riskScore = DblOne

\* C3: analyzeMessage never raises; absent, empty or non-string content yields the
\* zero assessment (riskScore 0, no flags, no category matches).
C3_NeverRaises ==
    Analyzed =>
        /\ "raised" \notin DOMAIN output.val
        /\ (input.content \in {Null, Undefined, Num(0), Num(5), Obj, Str("")} =>
              /\ output.val.riskScore = DblZero
              /\ output.val.flags = <<>>
              /\ output.val.categories = <<>>)

C3_Witness ==
    /\ Analyzed
    /\ input.content = Num(5)
    /\ output.val.riskScore = DblZero
    /\ output.val.flags = <<>>

(***************************************************************************)
(* One call of getRiskLevel (SpecLevel), for the scores in hundredths, two *)
(* sums that fall between them, and thresholds in non-decreasing order, as *)
(* the configuration requires.                                             *)
(***************************************************************************)
LevelThresholds ==
    { <<<<>>, <<>>, <<>>>>, <<<<"0.2">>, <<"0.5">>, <<"0.7">>>>, <<<<"0.1">>, <<>>, <<"0.95">>>>,
      <<<<"0">>, <<"0.5">>, <<"0.5">>>>, <<<<"0.3">>, <<"">>, <<"1">>>> }

LevelEnvs ==
    { [DefaultEnv EXCEPT !.RISK_THRESHOLD_LOW = t[1], !.RISK_THRESHOLD_MEDIUM = t[2],
                         !.RISK_THRESHOLD_HIGH = t[3]] : t \in LevelThresholds }

\* 0.1 + 0.2 is 0.30000000000000004
LevelScores == Hundredths \cup {NearlyHigh, DblAdd(Lit(1, 10), Lit(2, 10))}

InitLevel ==
    /\ env \in LevelEnvs
    /\ input \in [call : {"getRiskLevel"}, riskScore : LevelScores]
    /\ Called

ApplyLevel ==
    /\ ~output.done
    /\ input.call = "getRiskLevel"
    /\ output' = [done |-> TRUE, val |-> getRiskLevel(input.riskScore)]
    /\ UNCHANGED <<env, input, dbVars, clock, client, botVars>>

NextLevel == ApplyLevel

SpecLevel == InitLevel /\ [][NextLevel]_vars

Levelled == output.done /\ input.call = "getRiskLevel"

\* the position of a label in the order Low < Medium < High < Critical
LevelRank(label) ==
    CASE label = "Low" -> 0 [] label = "Medium" -> 1 [] label = "High" -> 2
      [] label = "Critical" -> 3

\* C11: getRiskLevel gives every score exactly one label: Low below low, Medium from
\* low (included) to medium (excluded), High from medium (included) to high
\* (excluded), Critical from high (included) upward; with thresholds in order no
\* smaller score gets a higher label.
C11_RiskBands ==
    Levelled =>
        LET s == input.riskScore
            low == ThresholdLow
            medium == ThresholdMedium
            high == ThresholdHigh
        IN  /\ output.val \in {"Low", "Medium", "High", "Critical"}
            /\ output.val = "Low" <=> DblCmp(s, low) < 0
            /\ output.val = "Medium" <=> (DblCmp(low, s) <= 0 /\ DblCmp(s, medium) < 0)
            /\ output.val = "High" <=> (DblCmp(medium, s) <= 0 /\ DblCmp(s, high) < 0)
            /\ output.val = "Critical" <=> DblCmp(s, high) >= 0
            /\ \A t \in LevelScores :
                  DblCmp(t, s) <= 0 => LevelRank(getRiskLevel(t)) <= LevelRank(output.val)

C11_Witness ==
    /\ Levelled
    /\ env = DefaultEnv
    /\ input.riskScore = parseFloat("0.6")
    /\ output.val = "High"

\* C18: updateRiskProfile leaves the profile it was handed as it was: after the call
\* the caller's object still has the old messageCount, totalRiskScore and flagHistory.
C18_ArgumentUnchanged ==
    (Updated /\ "arg" \in DOMAIN output) => output.arg = input.userProfile

\* the numbers the statements about the classifier name
SentimentCeiling == parseFloat("0.3")
PerTerm == parseFloat("0.15")
PerCategoryCeiling == parseFloat("0.5")
CapsIncrement == parseFloat("0.1")
SpamIncrement == parseFloat("0.05")
Twenty == DblOfInt(20)

\* C19: for a message with no lexicon term, no excess of capitals and no repeated
\* character (no flag), the riskScore is the sentiment contribution alone: 0 for a
\* polarity of 0 or more, |polarity| / 20 capped at 0.3 below 0; so it is at most 0.3
\* and, under the default thresholds, the message is banded Low or Medium.
C19_SentimentCeiling ==
    (Analyzed /\ TypeOf(input.content) = "string" /\ input.content.str # ""
       /\ output.val.flags = <<>>) =>
        LET polarity == input.sentimentScore
            risk == output.val.riskScore
        IN  /\ polarity >= 0 => risk = DblZero
            /\ polarity < 0 =>
                  (IF 0 - polarity >= 6 THEN risk = SentimentCeiling
                   ELSE risk = DblDiv(DblOfInt(0 - polarity), Twenty))
            /\ DblCmp(risk, SentimentCeiling) <= 0
            /\ getRiskLevel(risk) \in {"Low", "Medium"}

C19_Witness ==
    /\ Analyzed
    /\ input.content = Str("hello hello ")
    /\ input.sentimentScore = -9
    /\ output.val.flags = <<>>
    /\ output.val.riskScore = SentimentCeiling
    /\ getRiskLevel(output.val.riskScore) = "Medium"

\* the uppercase letters of a string, those outside A-Z included
RECURSIVE CountUppercaseLetters(_)
CountUppercaseLetters(str) ==
    IF str = "" THEN 0
    ELSE (IF IsUpper(Head(str)) \/ Head(str) = UpperCaseOther THEN 1 ELSE 0)
         + CountUppercaseLetters(Tail(str))

HasFlag(flag) == \E i \in DOMAIN output.val.flags : output.val.flags[i] = flag

\* C20: a message is flagged excessive_caps if and only if its uppercase letters are
\* more than half of its length and its length is above 10.
C20_ExcessiveCapsIff ==
    (Analyzed /\ TypeOf(input.content) = "string" /\ input.content.str # "") =>
        (HasFlag("excessive_caps")
           <=> /\ 2 * CountUppercaseLetters(input.content.str) > Len(input.content.str)
               /\ Len(input.content.str) > 10)

\* some character stands 5 or more times in a row in the string, whichever it is
HasRunOfFive(str) ==
    \E i \in 1 .. Len(str) - 4 : \A j \in 1 .. 4 : CharAt(str, i + j) = CharAt(str, i)

\* C21: a message is flagged spam_pattern if and only if some character, whichever it
\* is, is repeated 5 or more times consecutively in it.
C21_SpamPatternIff ==
    (Analyzed /\ TypeOf(input.content) = "string" /\ input.content.str # "") =>
        (HasFlag("spam_pattern") <=> HasRunOfFive(input.content.str))

\* the numbers the statements about the aggregator name
Decay == parseFloat("0.95")
TrendMargin == parseFloat("1.2")

\* total / (count * 0.95 + 1), as JavaScript computes it
AverageOf(total, count) ==
    DblDiv(total, DblAdd(DblMul(DblOfInt(count), Decay), DblOne))

\* C23: every update sets totalRiskScore to 0.95 times the previous total plus the
\* message's riskScore and averageRiskScore to the new total divided by
\* (new messageCount * 0.95 + 1); so every profile of the chain of updates, the
\* all-zero one included, has averageRiskScore = totalRiskScore / (messageCount * 0.95 + 1).
C23_AverageFromTotal ==
    /\ output.val.averageRiskScore
         = AverageOf(output.val.totalRiskScore, output.val.messageCount)
    /\ Updated =>
          /\ After.totalRiskScore
               = DblAdd(DblMul(Before.totalRiskScore, Decay), input.analysis.riskScore)
          /\ After.averageRiskScore = AverageOf(After.totalRiskScore, Before.messageCount + 1)

C23_Witness ==
    /\ Updated
    /\ Before.messageCount = 1
    /\ Before.totalRiskScore = DblOne
    /\ input.analysis.riskScore = parseFloat("0.8")
    /\ After.totalRiskScore = parseFloat("1.75")
    /\ After.averageRiskScore = DblDiv(parseFloat("1.75"), parseFloat("2.9"))

\* C24: when messageCount after the update is above 5, trendingUp after the update is
\* exactly (riskScore > 1.2 * the average that includes the current message), whatever
\* it was before: true when the test succeeds, false when it fails.
C24_TrendFromNewAverage ==
    (Updated /\ Before.messageCount + 1 > 5) =>
        /\ After.averageRiskScore
             = AverageOf(DblAdd(DblMul(Before.totalRiskScore, Decay), input.analysis.riskScore),
                         Before.messageCount + 1)
        /\ After.trendingUp
             <=> DblCmp(input.analysis.riskScore,
                        DblMul(TrendMargin, After.averageRiskScore)) > 0

C24_Witness ==
    /\ Updated
    /\ input.userProfile # Null
    /\ input.userProfile.messageCount = 5
    /\ input.userProfile.trendingUp
    /\ input.userProfile.totalRiskScore = DblOfInt(3)
    /\ input.analysis.riskScore = parseFloat("0.5")
    /\ ~After.trendingUp

\* the number of distinct terms of a category occurring in a lowercased content
TermCount(category, lowered) ==
    Cardinality({i \in DOMAIN RISK_PATTERNS[category] :
                    Includes(lowered, RISK_PATTERNS[category][i])})

\* min(count * 0.15, 0.5)
Contribution(count) ==
    IF DblCmp(DblMul(DblOfInt(count), PerTerm), PerCategoryCeiling) < 0
    THEN DblMul(DblOfInt(count), PerTerm)
    ELSE PerCategoryCeiling

\* the running sum with the contribution of one more category, nothing for a count of 0
Plus(sum, count) == IF count > 0 THEN DblAdd(sum, Contribution(count)) ELSE sum

\* C25: for each lexicon category, the category is in flags and in the category-match
\* map if and only if at least one of its terms occurs in the lowercased content, the
\* map records that count, and the score is the sum (cut at 1) of the sentiment part,
\* min(count * 0.15, 0.5) for every category independently, and the two behavioural
\* increments; a term of two categories counts in both.
C25_CategoryContributions ==
    (Analyzed /\ TypeOf(input.content) = "string" /\ input.content.str # "") =>
        LET lowered == toLowerCase(input.content.str)
            count == [i \in DOMAIN Categories |-> TermCount(Categories[i], lowered)]
            sentiment == IF input.sentimentScore >= 0 THEN DblZero
                         ELSE IF 0 - input.sentimentScore >= 6 THEN SentimentCeiling
                         ELSE DblDiv(DblOfInt(0 - input.sentimentScore), Twenty)
            lexicon == Plus(Plus(Plus(Plus(Plus(sentiment, count[1]), count[2]), count[3]),
                                 count[4]), count[5])
            shouting == IF HasFlag("excessive_caps") THEN DblAdd(lexicon, CapsIncrement)
                        ELSE lexicon
            sum == IF HasFlag("spam_pattern") THEN DblAdd(shouting, SpamIncrement)
                   ELSE shouting
        IN  /\ \A i \in DOMAIN Categories :
                  /\ HasFlag(Categories[i]) <=> count[i] > 0
                  /\ Categories[i] \in DOMAIN output.val.categories <=> count[i] > 0
                  /\ Categories[i] \in DOMAIN output.val.categories =>
                        output.val.categories[Categories[i]].count = count[i]
            /\ output.val.riskScore = (IF DblCmp(sum, DblOne) < 0 THEN sum ELSE DblOne)

C25_Witness ==
    /\ Analyzed
    /\ input.content = Str("I HATE nazi trash ")
    /\ input.sentimentScore = -4
    /\ output.val.categories["hate"].count = 3
    /\ output.val.categories["toxicity"].count = 1
    /\ HasFlag("hate") /\ HasFlag("toxicity")
    /\ ~HasFlag("violence")
    /\ DblLess(output.val.riskScore, parseFloat("0.8"))
    /\ DblLess(parseFloat("0.79"), output.val.riskScore)

(***************************************************************************)
(* database.js called directly, as the tests do (SpecStore).  input is the *)
(* last call, output what it returned or raised.                           *)
(***************************************************************************)
\* the profiles handed to updateUserProfile
StoreProfiles ==
    [messageCount : {10}, totalRiskScore : {DblOfInt(5)},
     averageRiskScore : {Lit(1, 2)}, highRiskCount : {2},
     flagHistory : {<<>>, <<[key |-> "violence", value |-> 3], [key |-> "hate", value |-> 1]>>},
     trendingUp : BOOLEAN, lastAnalyzed : {Null, [iso |-> 1]}]

InitStore ==
    /\ env = DefaultEnv
    /\ input = [call |-> "none"]
    /\ output = [done |-> FALSE]
    /\ client = "ready"
    /\ BotIdle

\* database.createUserProfile(userId)
CallCreateUserProfile(userId) ==
    /\ input' = [call |-> "createUserProfile", userId |-> userId]
    /\ output' = [done |-> TRUE, val |-> FreshProfile(userId, Now)]
    /\ user_profiles' = InsertOrIgnoreProfile(user_profiles, userId, Now)
    /\ UNCHANGED <<env, message_logs, alerts, sqlite_sequence, clock, client, botVars>>

\* database.getUserProfile(userId)
CallGetUserProfile(userId) ==
    /\ input' = [call |-> "getUserProfile", userId |-> userId]
    /\ output' = [done |-> TRUE, val |-> getUserProfile(user_profiles, userId, Now)]
    /\ user_profiles' = InsertOrIgnoreProfile(user_profiles, userId, Now)
    /\ UNCHANGED <<env, message_logs, alerts, sqlite_sequence, clock, client, botVars>>

\* database.updateUserProfile(userId, profile)
CallUpdateUserProfile(userId, profile) ==
    /\ input' = [call |-> "updateUserProfile", userId |-> userId, profile |-> profile]
    /\ output' = [done |-> TRUE, val |-> Undefined]
    /\ user_profiles' = updateUserProfile(user_profiles, userId, profile, Now)
    /\ UNCHANGED <<env, message_logs, alerts, sqlite_sequence, clock, client, botVars>>

\* database.logMessage(messageId, userId, content, riskScore, flags)
CallLogMessage(messageId, userId, content, riskScore, flags) ==
    /\ sqlite_sequence.message_logs < MaxMessages
    /\ input' = [call |-> "logMessage", messageId |-> messageId, userId |-> userId]
    /\ LET logged == logMessage(user_profiles, message_logs, sqlite_sequence, messageId,
                                userId, content, riskScore, flags, Now)
       IN  IF "raised" \in DOMAIN logged
           THEN /\ output' = [done |-> TRUE, val |-> logged]
                /\ UNCHANGED <<message_logs, sqlite_sequence>>
           ELSE /\ output' = [done |-> TRUE, val |-> Undefined]
                /\ message_logs' = logged.message_logs
                /\ sqlite_sequence' = logged.sqlite_sequence
    /\ UNCHANGED <<env, user_profiles, alerts, clock, client, botVars>>

ProfileCreated == \E userId \in UserIds : CallCreateUserProfile(userId)
ProfileRead == \E userId \in UserIds : CallGetUserProfile(userId)
ProfileWritten == \E userId \in UserIds, profile \in StoreProfiles :
                      CallUpdateUserProfile(userId, profile)
MessageLogged == \E messageId \in {"m1", "m2"}, userId \in UserIds :
                     CallLogMessage(messageId, userId, "hello ", DblZero, <<>>)

NextStore == ProfileCreated \/ ProfileRead \/ ProfileWritten \/ MessageLogged

SpecStore == InitStore /\ [][NextStore]_vars

\* the fields of a profile the store keeps
Fields(p) ==
    [messageCount |-> p.messageCount, totalRiskScore |-> p.totalRiskScore,
     averageRiskScore |-> p.averageRiskScore, highRiskCount |-> p.highRiskCount,
     flagHistory |-> p.flagHistory, trendingUp |-> p.trendingUp,
     lastAnalyzed |-> p.lastAnalyzed]

\* C15: when updateUserProfile(id, p) for an author who has a row is followed by
\* getUserProfile(id), the profile returned has the messageCount, totalRiskScore,
\* averageRiskScore, highRiskCount, flagHistory, trendingUp and lastAnalyzed of p.
C15_RoundTrip ==
    [][(/\ input.call = "updateUserProfile"
        /\ input.userId \in DOMAIN user_profiles
        /\ input'.call = "getUserProfile"
        /\ input'.userId = input.userId)
       => Fields(output'.val) = Fields(input.profile)]_vars

C15_Witness ==
    /\ input.call = "getUserProfile"
    /\ input.userId = "u1"
    /\ user_profiles["u1"].flag_history = "{\"violence\":3,\"hate\":1}"
    /\ output.val.messageCount = 10
    /\ output.val.totalRiskScore = DblOfInt(5)
    /\ output.val.flagHistory
         = <<[key |-> "violence", value |-> 3], [key |-> "hate", value |-> 1]>>
    /\ output.val.trendingUp
    /\ output.val.lastAnalyzed = [iso |-> 1]

(***************************************************************************)
(* The alerts table through database.js, called directly as the tests do   *)
(* (SpecAlerts).                                                           *)
(***************************************************************************)
\* database.createAlert(messageId, userId, 'high_risk', riskScore, details)
CallCreateAlert(messageId, userId, riskScore) ==
    /\ Len(alerts) < MaxAlerts
    /\ input' = [call |-> "createAlert", messageId |-> messageId, userId |-> userId]
    /\ LET created == createAlert(user_profiles, alerts, sqlite_sequence, messageId, userId,
                                  "high_risk", riskScore, <<>>, Now)
       IN  IF "raised" \in DOMAIN created
           THEN /\ output' = [done |-> TRUE, val |-> created]
                /\ UNCHANGED <<alerts, sqlite_sequence>>
           ELSE /\ output' = [done |-> TRUE, val |-> Undefined]
                /\ alerts' = created.alerts
                /\ sqlite_sequence' = created.sqlite_sequence
    /\ UNCHANGED <<env, user_profiles, message_logs, clock, client, botVars>>

\* database.acknowledgeAlert(alertId)
CallAcknowledgeAlert(alertId) ==
    /\ input' = [call |-> "acknowledgeAlert", alertId |-> alertId]
    /\ output' = [done |-> TRUE, val |-> Undefined]
    /\ alerts' = acknowledgeAlert(alerts, alertId)
    /\ UNCHANGED <<env, user_profiles, message_logs, sqlite_sequence, clock, client, botVars>>

\* database.getUnacknowledgedAlerts()
CallGetUnacknowledgedAlerts ==
    /\ input' = [call |-> "getUnacknowledgedAlerts"]
    /\ output' = [done |-> TRUE, val |-> getUnacknowledgedAlerts(alerts, AlertsLimit)]
    /\ UNCHANGED <<env, dbVars, clock, client, botVars>>

\* database.getStats()
CallGetStats ==
    /\ input' = [call |-> "getStats"]
    /\ output' = [done |-> TRUE, val |-> getStats(user_profiles, message_logs, alerts)]
    /\ UNCHANGED <<env, dbVars, clock, client, botVars>>

AlertCreated ==
    \E userId \in UserIds, riskScore \in {Lit(85, 100), Lit(9, 10)} :
        CallCreateAlert("m1", userId, riskScore)
AlertAcknowledgedDirectly == \E alertId \in 1 .. MaxAlerts + 1 : CallAcknowledgeAlert(alertId)

NextAlerts ==
    \/ Tick
    \/ ProfileCreated
    \/ AlertCreated
    \/ AlertAcknowledgedDirectly
    \/ CallGetUnacknowledgedAlerts
    \/ CallGetStats

SpecAlerts == InitStore /\ [][NextAlerts]_vars

\* the ids of the alerts that are not acknowledged
Unacknowledged(alertRows) ==
    {alertRows[i].id : i \in {j \in DOMAIN alertRows : alertRows[j].acknowledged = 0}}

\* C22: an acknowledged alert stays acknowledged and in the table whatever follows, and
\* getUnacknowledgedAlerts returns exactly the alerts not acknowledged; acknowledgeAlert
\* marks the alert of its id and changes no other row and no count of rows, a second
\* acknowledgement changes nothing; unacknowledgedAlerts is at most totalAlerts.
C22_AcknowledgeIsFinal ==
    /\ [][/\ \A i \in DOMAIN alerts :
               alerts[i].acknowledged = 1 =>
                   (i \in DOMAIN alerts' /\ alerts'[i].id = alerts[i].id
                      /\ alerts'[i].acknowledged = 1)
          /\ \A alertId \in 1 .. MaxAlerts + 1 :
               CallAcknowledgeAlert(alertId) =>
                   /\ Len(alerts') = Len(alerts)
                   /\ \A i \in DOMAIN alerts :
                          alerts'[i] = IF alerts[i].id = alertId
                                       THEN [alerts[i] EXCEPT !.acknowledged = 1]
                                       ELSE alerts[i]
                   /\ acknowledgeAlert(alerts', alertId) = alerts']_vars
    /\ [](/\ input.call = "getUnacknowledgedAlerts" =>
               /\ {output.val[k].id : k \in DOMAIN output.val} = Unacknowledged(alerts)
               /\ Len(output.val) = Cardinality(Unacknowledged(alerts))
          /\ input.call = "getStats" =>
               /\ output.val.totalAlerts = Len(alerts)
               /\ output.val.unacknowledgedAlerts = Cardinality(Unacknowledged(alerts))
               /\ output.val.unacknowledgedAlerts <= output.val.totalAlerts
          /\ getStats(user_profiles, message_logs, alerts).unacknowledgedAlerts
               <= getStats(user_profiles, message_logs, alerts).totalAlerts)

C22_Witness ==
    /\ Len(alerts) = 3
    /\ alerts[1].acknowledged = 0 /\ alerts[1].created_at = [sql |-> 0]
    /\ alerts[2].acknowledged = 1
    /\ alerts[3].acknowledged = 0 /\ alerts[3].created_at = [sql |-> 1]
    /\ input.call = "getUnacknowledgedAlerts"
    /\ Len(output.val) = 2
    /\ output.val[1].id = 3
    /\ output.val[2].id = 1

(***************************************************************************)
(* admin/server.js: the HTTP API of the admin panel, run next to the bot   *)
(* (SpecAdmin).  input is the last request served, output its response.    *)
(* The panel listens from the start of the process to its exit.  The       *)
(* requests examined stay below the 100 per quarter of an hour the rate    *)
(* limiter lets through; the dashboard page of GET / is not examined.  All  *)
(* of SpecAdmin happens within one second of the clock.                    *)
(***************************************************************************)
\* the ids a request path can name: the two members and someone never seen
AdminUserIds == UserIds \cup {"u3"}

Base64Alphabet == "ABCDEFGHIJKLMNOPQRSTUVWXYZabcdefghijklmnopqrstuvwxyz0123456789+/"

\* the 6-bit value of each character of the alphabet
Sextet ==
    [c \in {CharAt(Base64Alphabet, i) : i \in 1 .. Len(Base64Alphabet)} |->
        IndexOf(Base64Alphabet, c) - 1]

\* the characters with the codes 32 to 126, in the order of their codes; "?" stands
\* in the place of the grave accent (code 96)
Ascii ==
    " !\"#$%&'()*+,-./0123456789:;<=>?@ABCDEFGHIJKLMNOPQRSTUVWXYZ[\\]^_?abcdefghijklmnopqrstuvwxyz{|}~"

\* the bytes that a sequence of 6-bit values holds
RECURSIVE Bytes(_)
Bytes(sextets) ==
    IF Len(sextets) < 2 THEN <<>>
    ELSE LET first == sextets[1] * 4 + sextets[2] \div 16
         IN  IF Len(sextets) = 2 THEN <<first>>
             ELSE LET second == (sextets[2] % 16) * 16 + sextets[3] \div 4
                  IN  IF Len(sextets) = 3 THEN <<first, second>>
                      ELSE <<first, second, (sextets[3] % 4) * 64 + sextets[4]>>
                           \o Bytes(SubSeq(sextets, 5, Len(sextets)))

\* Buffer.from(text, 'base64').toString() for a text of the Base64 alphabet with its
\* padding, bytes outside 32..126 shown as "?"
Base64Decode(text) ==
    LET length == IF IndexOf(text, "=") = 0 THEN Len(text) ELSE IndexOf(text, "=") - 1
        bytes == Bytes([i \in 1 .. length |-> Sextet[CharAt(text, i)]])
    IN  Join([i \in DOMAIN bytes |->
                 IF bytes[i] >= 32 /\ bytes[i] <= 126 THEN CharAt(Ascii, bytes[i] - 31)
                 ELSE "?"], "")

\* req.path.startsWith('/public') || req.path === '/login' || req.path === '/api/login'
SkipsAuth(path) ==
    \/ Len(path) >= 7 /\ SubSeq(path, 1, 7) = "/public"
    \/ path = "/login"
    \/ path = "/api/login"

\* the authentication middleware: "next" when the request goes on to the routes,
\* "refused" when it is answered 401, "TypeError" when Buffer.from is handed the
\* undefined second part of a header without a space
Authenticate(request) ==
    IF SkipsAuth(request.path) THEN "next"
    ELSE IF request.authorization \in {<<>>, <<"">>} THEN "refused"
    ELSE LET parts == Split(request.authorization[1], " ")
         IN  IF Len(parts) < 2 THEN "TypeError"
             ELSE LET credentials == Split(Base64Decode(parts[2]), ":")
                      username == <<credentials[1]>>
                      password == IF Len(credentials) >= 2 THEN <<credentials[2]>> ELSE <<>>
                  IN  IF username = env.ADMIN_PANEL_USERNAME
                         /\ password = env.ADMIN_PANEL_PASSWORD
                      THEN "next"
                      ELSE "refused"

\* the white space and line terminators parseInt skips at the start of a text: space,
\* tab, line feed, form feed, carriage return, vertical tab (U+000B), no-break space
\* (U+00A0), the byte order mark (U+FEFF) and the ogham space mark (U+1680).  The
\* spaces U+2000 to U+200A, U+2028, U+2029, U+202F, U+205F and U+3000, which
\* parseInt skips as well, cannot be written in a string here and are not examined.
WhiteSpace == " \t\n\f\r ﻿ "
RECURSIVE TrimStart(_)
TrimStart(text) ==
    IF text # "" /\ IndexOf(WhiteSpace, CharAt(text, 1)) # 0 THEN TrimStart(Tail(text))
    ELSE text

\* the value of a character as a digit of the radix (10 or 16), -1 when it is none
HexDigits == "0123456789abcdef"
HexDigitsUpper == "0123456789ABCDEF"
DigitValue(c, radix) ==
    IF IndexOf(HexDigits, c) \in 1 .. radix THEN IndexOf(HexDigits, c) - 1
    ELSE IF IndexOf(HexDigitsUpper, c) \in 1 .. radix THEN IndexOf(HexDigitsUpper, c) - 1
    ELSE -1

\* the digits of the radix a text starts with
RECURSIVE LeadingDigits(_, _)
LeadingDigits(text, radix) ==
    IF text = "" \/ DigitValue(CharAt(text, 1), radix) < 0 THEN ""
    ELSE CharAt(text, 1) \o LeadingDigits(Tail(text), radix)

\* the integer a string of digits of the radix denotes
RECURSIVE RadixValue(_, _)
RadixValue(digits, radix) ==
    IF digits = "" THEN 0
    ELSE RadixValue(SubSeq(digits, 1, Len(digits) - 1), radix) * radix
         + DigitValue(CharAt(digits, Len(digits)), radix)

\* the text after a sign + or -
Unsigned(text) ==
    IF text # "" /\ CharAt(text, 1) \in {"+", "-"} THEN Tail(text) ELSE text

\* the text starts with 0x or 0X
HasHexPrefix(text) == Len(text) >= 2 /\ SubSeq(text, 1, 2) \in {"0x", "0X"}

\* the number of the digits read: NaN when there is none
ParseDigits(negative, digits, radix) ==
    IF digits = "" THEN <<>>
    ELSE IF negative THEN <<0 - RadixValue(digits, radix)>>
    ELSE <<RadixValue(digits, radix)>>

\* the radix is 16 after the prefix 0x and 10 otherwise
ParseUnsigned(negative, text) ==
    IF HasHexPrefix(text)
    THEN ParseDigits(negative, LeadingDigits(SubSeq(text, 3, Len(text)), 16), 16)
    ELSE ParseDigits(negative, LeadingDigits(text, 10), 10)

ParseTrimmed(text) == ParseUnsigned(text # "" /\ CharAt(text, 1) = "-", Unsigned(text))

\* parseInt of a query or path parameter without a radix: <<n>>, or <<>> for NaN; a
\* parameter left out is <<>> (undefined, which reads as NaN).  White space at the
\* start is skipped, then a sign, then the prefix 0x, and the digits of the radix up
\* to the first other character are read.  The numerals examined are below 2 ^ 31;
\* -0 is written 0, which the uses do not tell apart.
parseInt(parameter) ==
    IF parameter = <<>> THEN <<>> ELSE ParseTrimmed(TrimStart(parameter[1]))

\* parseInt(req.query.limit) || fallback
LimitOr(parameter, fallback) ==
    IF parseInt(parameter) = <<>> \/ parseInt(parameter) = <<0>> THEN fallback
    ELSE parseInt(parameter)[1]

\* res.status(status).json(body) or .send(body)
Respond(request, status, body) ==
    /\ input' = request
    /\ output' = [done |-> TRUE, status |-> status, body |-> body]

\* app.get('/api/stats'); uptime is the seconds on the clock
GetStats(request) ==
    /\ LET stats == getStats(user_profiles, message_logs, alerts)
       IN  Respond(request, 200,
                   [totalUsers |-> stats.totalUsers,
                    totalMessages |-> stats.totalMessages,
                    totalAlerts |-> stats.totalAlerts,
                    unacknowledgedAlerts |-> stats.unacknowledgedAlerts,
                    bot |-> [status |-> IF client = "ready" THEN "online" ELSE "offline",
                             guilds |-> IF client = "ready" THEN 1 ELSE 0,
                             uptime |-> clock]])
    /\ UNCHANGED <<env, dbVars, clock, client, botVars>>

\* app.get('/api/users/high-risk')
GetHighRiskUsers(request) ==
    /\ Respond(request, 200, getHighRiskUsers(user_profiles, LimitOr(request.limit, 50)))
    /\ UNCHANGED <<env, dbVars, clock, client, botVars>>

\* app.get('/api/users/:userId'): getUserProfile inserts the row it does not find,
\* so the 404 branch is never taken
GetUser(request) ==
    /\ Respond(request, 200, getUserProfile(user_profiles, request.userId, Now))
    /\ user_profiles' = InsertOrIgnoreProfile(user_profiles, request.userId, Now)
    /\ UNCHANGED <<env, message_logs, alerts, sqlite_sequence, clock, client, botVars>>

\* app.get('/api/users/:userId/messages')
GetUserMessages(request) ==
    /\ Respond(request, 200,
               getUserMessages(message_logs, request.userId, LimitOr(request.limit, 100)))
    /\ UNCHANGED <<env, dbVars, clock, client, botVars>>

\* app.get('/api/messages/high-risk')
GetHighRiskMessages(request) ==
    /\ Respond(request, 200, getHighRiskMessages(message_logs, LimitOr(request.limit, 50)))
    /\ UNCHANGED <<env, dbVars, clock, client, botVars>>

\* app.get('/api/alerts')
GetAlerts(request) ==
    /\ Respond(request, 200, getUnacknowledgedAlerts(alerts, LimitOr(request.limit, 50)))
    /\ UNCHANGED <<env, dbVars, clock, client, botVars>>

\* app.post('/api/alerts/:alertId/acknowledge'); an id that reads as NaN is bound as
\* NULL, which is the id of no row
PostAcknowledge(request) ==
    /\ Respond(request, 200, [success |-> TRUE])
    /\ alerts' = IF parseInt(<<request.alertId>>) = <<>> THEN alerts
                  ELSE acknowledgeAlert(alerts, parseInt(<<request.alertId>>)[1])
    /\ UNCHANGED <<env, user_profiles, message_logs, sqlite_sequence, clock, client, botVars>>

\* no route matches: the answer of Express
NotFound(request) ==
    /\ Respond(request, 404, "Cannot " \o request.method \o " " \o request.path)
    /\ UNCHANGED <<env, dbVars, clock, client, botVars>>

\* the route a request is dispatched to
Route(request) ==
    CASE request.route = "GET /api/stats" -> GetStats(request)
      [] request.route = "GET /api/users/high-risk" -> GetHighRiskUsers(request)
      [] request.route = "GET /api/users/:userId" -> GetUser(request)
      [] request.route = "GET /api/users/:userId/messages" -> GetUserMessages(request)
      [] request.route = "GET /api/messages/high-risk" -> GetHighRiskMessages(request)
      [] request.route = "GET /api/alerts" -> GetAlerts(request)
      [] request.route = "POST /api/alerts/:alertId/acknowledge" -> PostAcknowledge(request)
      [] request.route = "none" -> NotFound(request)

\* a request goes through the authentication middleware and, let through, to its route
Serve(request) ==
    /\ client # "exited"
    /\ LET outcome == Authenticate(request)
       IN  CASE outcome = "next" -> Route(request)
             [] outcome = "refused" ->
                   /\ Respond(request, 401, "Authentication required")
                   /\ UNCHANGED <<env, dbVars, clock, client, botVars>>
             [] outcome = "TypeError" ->
                   /\ Respond(request, 500, Raised("TypeError"))
                   /\ UNCHANGED <<env, dbVars, clock, client, botVars>>

\* what the catch of each route logs and answers
RouteFailures ==
    [route \in {"GET /api/stats", "GET /api/users/high-risk", "GET /api/users/:userId",
                "GET /api/users/:userId/messages", "GET /api/messages/high-risk",
                "GET /api/alerts", "POST /api/alerts/:alertId/acknowledge"} |->
        CASE route = "GET /api/stats" ->
                [at |-> "Error getting stats:", error |-> "Failed to get statistics"]
          [] route = "GET /api/users/high-risk" ->
                [at |-> "Error getting high-risk users:",
                 error |-> "Failed to get high-risk users"]
          [] route = "GET /api/users/:userId" ->
                [at |-> "Error getting user profile:", error |-> "Failed to get user profile"]
          [] route = "GET /api/users/:userId/messages" ->
                [at |-> "Error getting user messages:",
                 error |-> "Failed to get user messages"]
          [] route = "GET /api/messages/high-risk" ->
                [at |-> "Error getting high-risk messages:",
                 error |-> "Failed to get high-risk messages"]
          [] route = "GET /api/alerts" ->
                [at |-> "Error getting alerts:", error |-> "Failed to get alerts"]
          [] route = "POST /api/alerts/:alertId/acknowledge" ->
                [at |-> "Error acknowledging alert:", error |-> "Failed to acknowledge alert"]]

\* the largest number of failed database calls of the routes examined
MaxRouteFailures == 1

\* the database call of a route throws before it has written: the catch of the route
\* logs the error and answers 500
RouteThrows(request) ==
    /\ client # "exited"
    /\ Len(errors) < MaxRouteFailures
    /\ request.route \in DOMAIN RouteFailures
    /\ Authenticate(request) = "next"
    /\ Respond(request, 500, [error |-> RouteFailures[request.route].error])
    /\ errors' = Append(errors, [at |-> RouteFailures[request.route].at])
    /\ UNCHANGED <<env, dbVars, clock, client, arrived, handlers, channel>>

\* the Authorization headers examined: none, a scheme without credentials, and the
\* Base64 of admin:secret, admin:wrong and admin
Credentials == <<"Basic YWRtaW46c2VjcmV0">>
Headers == { <<>>, <<"Basic">>, Credentials, <<"Basic YWRtaW46d3Jvbmc=">>, <<"Basic YWRtaW4=">> }

\* the limit parameters examined: none, 1, 0 and -1, and 1 written with a sign, after
\* a space, after a vertical tab and in hexadecimal
Limits == { <<>>, <<"1">>, <<"0">>, <<"-1">>, <<"+1">>, <<" 1">>, <<"1">>, <<"0x1">> }

Requests ==
    [method : {"GET"}, path : {"/api/stats"}, route : {"GET /api/stats"},
     authorization : Headers]
    \cup
    [method : {"GET"}, path : {"/login"}, route : {"none"}, authorization : {<<>>}]
    \cup
    [method : {"GET"}, path : {"/api/users/high-risk"}, route : {"GET /api/users/high-risk"},
     authorization : {Credentials}, limit : {<<>>, <<"1">>}]
    \cup
    { [method |-> "GET", path |-> "/api/users/" \o userId, route |-> "GET /api/users/:userId",
       authorization |-> header, userId |-> userId] :
      userId \in {"u1", "u3"}, header \in {<<>>, Credentials} }
    \cup
    { [method |-> "GET", path |-> "/api/users/" \o userId \o "/messages",
       route |-> "GET /api/users/:userId/messages", authorization |-> Credentials,
       userId |-> userId, limit |-> limit] :
      userId \in {"u1"}, limit \in Limits }
    \cup
    [method : {"GET"}, path : {"/api/messages/high-risk"},
     route : {"GET /api/messages/high-risk"}, authorization : {Credentials},
     limit : {<<>>, <<"1">>}]
    \cup
    [method : {"GET"}, path : {"/api/alerts"}, route : {"GET /api/alerts"},
     authorization : {Credentials}, limit : {<<>>, <<"1">>}]
    \cup
    { [method |-> "POST", path |-> "/api/alerts/" \o alertId \o "/acknowledge",
       route |-> "POST /api/alerts/:alertId/acknowledge", authorization |-> header,
       alertId |-> alertId] :
      alertId \in {"1", "2", "x"}, header \in {Credentials} }

AdminRequest == \E request \in Requests : Serve(request)
\* the request whose database call is made to fail: the statistics
RequestFails ==
    \E request \in {r \in Requests : r.route = "GET /api/stats"
                                      /\ r.authorization = Credentials} :
        RouteThrows(request)

\* a message scoring the default high threshold, by the member u1
HighRiskMessage ==
    \E userId \in {"u1"}, text \in {t \in MessageTexts : t.sentimentScore = -9} :
        MessageCreate(Message(Len(arrived) + 1, Member(userId), text))

\* an alert is stored for a member, as the tests of database.js do
AlertRaised ==
    \E userId \in {"u1"} :
        /\ Len(alerts) < MaxAlerts - 1
        /\ CallCreateAlert("m1", userId, Lit(9, 10))

\* the bot with no alert channel configured: every handler runs to its end in one turn
InitIntake ==
    /\ env = [DefaultEnv EXCEPT !.ALERT_CHANNEL_ID = <<>>]
    /\ input = [call |-> "none"]
    /\ output = [done |-> FALSE]
    /\ client = "ready"
    /\ BotIdle

InitAdmin ==
    /\ env = [DefaultEnv EXCEPT !.ALERT_CHANNEL_ID = <<>>]
    /\ input = [call |-> "none"]
    /\ output = [done |-> FALSE]
    /\ client = "connecting"
    /\ BotIdle

NextAdmin ==
    \/ ClientReady
    \/ HighRiskMessage
    \/ MemberJoins
    \/ AlertRaised
    \/ AdminRequest
    \/ RequestFails

SpecAdmin == InitAdmin /\ [][NextAdmin]_vars

\* the all-zero defaults of a profile
ZeroFields ==
    [messageCount |-> 0, totalRiskScore |-> DblZero, averageRiskScore |-> DblZero,
     highRiskCount |-> 0, flagHistory |-> <<>>, trendingUp |-> FALSE, lastAnalyzed |-> Null]

\* the stored profile of userId after the step
StoredAfter(userId) == Fields(RowToProfile(userId, user_profiles'[userId]))

\* the request of a step is GET /api/users/userId, let through to its route
UserServed(userId) ==
    \E request \in Requests :
        /\ request.route = "GET /api/users/:userId"
        /\ request.userId = userId
        /\ Authenticate(request) = "next"
        /\ Serve(request)

\* C13: whenever a step gives an author a first row, the profile created has the
\* all-zero defaults: a membership-join stores exactly them; getUserProfile for the
\* unknown id (here called by the admin panel) stores and returns exactly them; a
\* first message stores the aggregator's update of exactly them.
C13_CreatedAllZero ==
    [][\A u \in AdminUserIds :
          (u \notin DOMAIN user_profiles /\ u \in DOMAIN user_profiles') =>
              \/ /\ GuildMemberAdd(u)
                 /\ StoredAfter(u) = ZeroFields
              \/ /\ UserServed(u)
                 /\ StoredAfter(u) = ZeroFields
                 /\ output'.body.userId = u
                 /\ Fields(output'.body) = ZeroFields
              \/ /\ arrived' # arrived
                 /\ arrived'[Len(arrived')].author.id = u
                 /\ StoredAfter(u)
                      = Fields(updateRiskProfile(ZeroFields,
                                                 handlers'[Len(handlers')].analysis, Now))]_vars

C13_Witness ==
    /\ "route" \in DOMAIN input
    /\ input.route = "GET /api/users/:userId"
    /\ input.userId = "u3"
    /\ output.status = 200
    /\ Fields(output.body) = ZeroFields
    /\ DOMAIN user_profiles = {"u1", "u2", "u3"}
    /\ user_profiles["u1"].message_count = 1
    /\ user_profiles["u2"].message_count = 0
    /\ user_profiles["u3"].message_count = 0

\* C14: a profile row comes into existence only by a message event of its author or a
\* membership-join event, changes only by a message event of its author, and is never
\* removed; no request to the admin panel touches user_profiles.
C14_OnlyEventsTouchProfiles ==
    [][\A u \in AdminUserIds :
          /\ u \in DOMAIN user_profiles => u \in DOMAIN user_profiles'
          /\ (u \notin DOMAIN user_profiles /\ u \in DOMAIN user_profiles') =>
                 \/ GuildMemberAdd(u)
                 \/ (arrived' # arrived /\ arrived'[Len(arrived')].author.id = u)
          /\ (u \in DOMAIN user_profiles /\ u \in DOMAIN user_profiles'
                /\ user_profiles'[u] # user_profiles[u]) =>
                 (arrived' # arrived /\ arrived'[Len(arrived')].author.id = u)]_vars

\* the handler of event i went past the bot and scan tests
Processed(i) == handlers[i].pc # "skipped"

\* the aggregator applied, one message after another in arrival order, to the
\* processed messages of userId among the first k delivered, from the all-zero
\* profile, each at the clock reading of its handler
RECURSIVE Sequential(_, _)
Sequential(userId, k) ==
    IF k = 0 THEN NewProfile
    ELSE IF Processed(k) /\ arrived[k].author.id = userId
    THEN updateRiskProfile(
             Sequential(userId, k - 1),
             AnalysisOf[[content |-> arrived[k].content,
                         sentimentScore |-> arrived[k].sentimentScore], handlers[k].now],
             handlers[k].now)
    ELSE Sequential(userId, k - 1)

\* C1: however the handlers of an author's messages interleave at their awaits, the
\* stored profile is the one the aggregator yields when applied to the messages one
\* after another in arrival order; no update is lost.
C1_SerialProfile ==
    \A u \in UserIds :
        IF \E i \in DOMAIN arrived : Processed(i) /\ arrived[i].author.id = u
        THEN /\ u \in DOMAIN user_profiles
             /\ Fields(RowToProfile(u, user_profiles[u])) = Fields(Sequential(u, Len(arrived)))
        ELSE u \in DOMAIN user_profiles =>
                 Fields(RowToProfile(u, user_profiles[u])) = ZeroFields

C1_Witness ==
    /\ Len(arrived) = 2
    /\ \A i \in 1 .. 2 : arrived[i].author.id = "u1"
    /\ handlers[1].pc = "send"
    /\ handlers[2].pc = "fetch"
    /\ user_profiles["u1"].message_count = 2
    /\ user_profiles["u1"].high_risk_count = 2
    /\ user_profiles["u1"].total_risk_score
         = DblAdd(DblMul(parseFloat("0.8"), parseFloat("0.95")), parseFloat("0.8"))

(***************************************************************************)
(* The bot with no alert channel configured (SpecIntake): every handler    *)
(* runs to its end in one turn.                                            *)
(***************************************************************************)
NextIntake == NewMessage \/ MemberJoins

SpecIntake == InitIntake /\ [][NextIntake]_vars

\* user_profiles after the handler of a message by a member has run on the table at
\* clock reading now (lines 37-44 of the handler, scanning enabled)
Handled(table, message, now) ==
    updateUserProfile(
        InsertOrIgnoreProfile(table, message.author.id, now),
        message.author.id,
        updateRiskProfile(
            getUserProfile(table, message.author.id, now),
            AnalysisOf[[content |-> message.content,
                        sentimentScore |-> message.sentimentScore], now],
            now),
        now)

\* the profiles a table stores
Profiles(table) == [u \in DOMAIN table |-> Fields(RowToProfile(u, table[u]))]

\* the profiles a table stores, lastAnalyzed left out
WithoutClock(table) ==
    [u \in DOMAIN table |-> [Profiles(table)[u] EXCEPT !.lastAnalyzed = Null]]

\* the messages two members may send next
NextMessagesOf(userId) == { Message(0, Member(userId), text) : text \in MessageTexts }

\* C12: a message event of author A leaves the stored row of every other author as it
\* was (and creates or removes none); and from any reached store, handling a message
\* of u1 and a message of u2 gives the same stored profiles in either order: the same
\* profiles when each event keeps its clock reading, the same but for lastAnalyzed
\* when the clock is read in processing order.
C12_AuthorsIndependent ==
    /\ [][arrived' # arrived =>
             \A u \in UserIds \ {arrived'[Len(arrived')].author.id} :
                 /\ u \in DOMAIN user_profiles <=> u \in DOMAIN user_profiles'
                 /\ u \in DOMAIN user_profiles => user_profiles'[u] = user_profiles[u]]_vars
    /\ [](\A a \in NextMessagesOf("u1"), b \in NextMessagesOf("u2") :
             /\ Profiles(Handled(Handled(user_profiles, a, Now), b, Now + 1))
                  = Profiles(Handled(Handled(user_profiles, b, Now + 1), a, Now))
             /\ WithoutClock(Handled(Handled(user_profiles, a, Now), b, Now + 1))
                  = WithoutClock(Handled(Handled(user_profiles, b, Now), a, Now + 1)))

C12_Witness ==
    /\ Len(arrived) = 2
    /\ arrived[1].author.id = "u1" /\ Processed(1)
    /\ arrived[2].author.id = "u2" /\ Processed(2)
    /\ user_profiles["u1"].message_count = 1
    /\ user_profiles["u1"].high_risk_count = 0
    /\ user_profiles["u2"].message_count = 1
    /\ user_profiles["u2"].high_risk_count = 1
    /\ user_profiles["u1"].rowid = 1 /\ user_profiles["u2"].rowid = 2

\* C16: a failed alert is logged and rolls nothing back: the step that logs the failure
\* leaves the tables as they are, and whenever the alert of message i has failed, its
\* handler has ended, the message's log row is there, and the author's stored profile
\* is the aggregator's fold of all of the author's processed messages, the triggering
\* one and the later ones included.
C16_AlertFailureKeepsUpdate ==
    /\ [][errors' # errors =>
             /\ user_profiles' = user_profiles
             /\ message_logs' = message_logs
             /\ alerts' = alerts]_vars
    /\ [](\A e \in DOMAIN errors :
             errors[e].at = "Error sending alert:" =>
                 LET i == errors[e].message
                     u == arrived[i].author.id
                 IN  /\ handlers[i].pc = "done"
                     /\ \E k \in DOMAIN message_logs :
                            /\ message_logs[k].message_id = arrived[i].id
                            /\ message_logs[k].user_id = u
                            /\ message_logs[k].risk_score = handlers[i].analysis.riskScore
                     /\ u \in DOMAIN user_profiles
                     /\ Fields(RowToProfile(u, user_profiles[u]))
                          = Fields(Sequential(u, Len(arrived))))

C16_Witness ==
    /\ Len(arrived) = 2
    /\ \A i \in 1 .. 2 : arrived[i].author.id = "u1" /\ Processed(i)
    /\ errors = <<[at |-> "Error sending alert:", message |-> 1]>>
    /\ handlers[2].pc = "done"
    /\ handlers[2].sendAlert
    /\ Len(message_logs) = 2
    /\ user_profiles["u1"].message_count = 2
    /\ Cardinality(channel) = 1

(***************************************************************************)
(* The bot with a store that can fail (SpecFaulty): a call of database.js  *)
(* inside the message handler throws, the handler's catch logs the error.  *)
(***************************************************************************)
\* the database calls of the handler, in the order it makes them
StoreCalls == {"getUserProfile", "updateUserProfile", "logMessage"}

\* the handler with the catch left out: the failure is not logged and the handler
\* never ends
MessageCreateThrows_Uncaught(message, at) ==
    /\ client = "ready"
    /\ Len(arrived) < MaxMessages
    /\ ~Ignores(message)
    /\ arrived' = Append(arrived, message)
    /\ handlers' = Append(handlers, [pc |-> "thrown", message |-> message, threw |-> at])
    /\ UNCHANGED <<env, callVars, dbVars, clock, client, channel, errors>>
\* the handler that goes on to sendAlert after the failure of a database call
MessageCreateThrows_AlertsAnyway(message, at) ==
    /\ client = "ready"
    /\ Len(arrived) < MaxMessages
    /\ ~Ignores(message)
    /\ arrived' = Append(arrived, message)
    /\ LET analysis == AnalysisOf[[content |-> message.content,
                                   sentimentScore |-> message.sentimentScore], Now]
           userProfile == getUserProfile(user_profiles, message.author.id, Now)
           created == InsertOrIgnoreProfile(user_profiles, message.author.id, Now)
           updatedProfile == updateRiskProfile(userProfile, analysis, Now)
       IN  /\ user_profiles' =
                  CASE at = "getUserProfile" -> user_profiles
                    [] at = "updateUserProfile" -> created
                    [] at = "logMessage" ->
                           updateUserProfile(created, message.author.id, updatedProfile, Now)
           /\ handlers' = Append(handlers,
                  [pc |-> IF ShouldAlert(analysis, updatedProfile) THEN "fetch" ELSE "failed",
                   message |-> message, threw |-> at, analysis |-> analysis,
                   updatedProfile |-> updatedProfile,
                   sendAlert |-> ShouldAlert(analysis, updatedProfile), now |-> Now])
    /\ errors' = Append(errors, [at |-> "Error analyzing message:",
                                 message |-> Len(arrived) + 1])
    /\ UNCHANGED <<env, callVars, message_logs, alerts, sqlite_sequence, clock, client,
                   channel>>
\* client.on(Events.MessageCreate) when the database call named by at throws: the
\* calls before it have had their effect, the rest of the try block is skipped
MessageCreateThrows(message, at) ==
    /\ client = "ready"
    /\ Len(arrived) < MaxMessages
    /\ ~Ignores(message)
    /\ arrived' = Append(arrived, message)
    /\ user_profiles' =
           CASE at = "getUserProfile" -> user_profiles
             [] at = "updateUserProfile" ->
                    InsertOrIgnoreProfile(user_profiles, message.author.id, Now)
             [] at = "logMessage" -> Handled(user_profiles, message, Now)
    /\ handlers' = Append(handlers, [pc |-> "failed", message |-> message, threw |-> at])
    /\ errors' = Append(errors, [at |-> "Error analyzing message:",
                                 message |-> Len(arrived) + 1])
    /\ UNCHANGED <<env, callVars, message_logs, alerts, sqlite_sequence, clock, client,
                   channel>>

\* the message with the next id, by a member, with any of the texts
MemberMessage ==
    \E userId \in UserIds, text \in MessageTexts :
        MessageCreate(Message(Len(arrived) + 1, Member(userId), text))

\* a message scoring the default high threshold, by a member, whose handling meets a failure
MessageFails ==
    \E userId \in UserIds, at \in StoreCalls,
       text \in {t \in MessageTexts : t.sentimentScore = -9} :
        MessageCreateThrows(Message(Len(arrived) + 1, Member(userId), text), at)

\* the thresholds left to their defaults, and set lower
FaultyEnvs ==
    { DefaultEnv,
      [DefaultEnv EXCEPT !.RISK_THRESHOLD_LOW = <<"0.1">>, !.RISK_THRESHOLD_MEDIUM = <<"0.2">>,
                         !.RISK_THRESHOLD_HIGH = <<"0.4">>] }

InitFaulty ==
    /\ env \in FaultyEnvs
    /\ input = [call |-> "none"]
    /\ output = [done |-> FALSE]
    /\ client = "ready"
    /\ BotIdle

NextFaulty == MemberMessage \/ MessageFails \/ FetchSettles \/ SendSettles \/ MemberJoins

SpecFaulty == InitFaulty /\ [][NextFaulty]_vars

\* the stored messageCount of an author, 0 without a row
StoredCount(table, userId) ==
    IF userId \in DOMAIN table THEN table[userId].message_count ELSE 0

\* C17: a database call that throws inside the message handler is caught and logged
\* and blocks nothing: the handler of the failed message has ended with its error
\* logged, and every message whose handling meets no failure, those after a failure
\* included, is analysed, counted in its author's stored profile and logged.
C17_FailureDoesNotBlockIntake ==
    /\ [](\A i \in DOMAIN handlers :
             /\ handlers[i].pc \in {"skipped", "done", "failed", "fetch", "send"}
             /\ "threw" \in DOMAIN handlers[i] =>
                    /\ handlers[i].pc = "failed"
                    /\ \E e \in DOMAIN errors :
                           errors[e] = [at |-> "Error analyzing message:", message |-> i])
    /\ [][(arrived' # arrived /\ "threw" \notin DOMAIN handlers'[Len(handlers')]) =>
             LET message == arrived'[Len(arrived')]
                 h == handlers'[Len(handlers')]
                 u == message.author.id
             IN  /\ h.analysis = analyzeMessage(Str(message.content), message.sentimentScore, h.now)
                 /\ u \in DOMAIN user_profiles'
                 /\ user_profiles'[u].message_count = StoredCount(user_profiles, u) + 1
                 /\ Fields(RowToProfile(u, user_profiles'[u])) = Fields(h.updatedProfile)
                 /\ Len(message_logs') = Len(message_logs) + 1
                 /\ message_logs'[Len(message_logs')].message_id = message.id]_vars

C17_Witness ==
    /\ Len(arrived) = 2
    /\ \A i \in 1 .. 2 : arrived[i].author.id = "u1"
    /\ handlers[1].pc = "failed" /\ handlers[1].threw = "logMessage"
    /\ handlers[2].pc = "done" /\ handlers[2].sendAlert
    /\ Len(errors) = 1
    /\ user_profiles["u1"].message_count = 2
    /\ Len(message_logs) = 1
    /\ message_logs[1].message_id = "m2"

\* the embed reports the message: its Link field leads to it
Reports(embed, message) ==
    embed.fields[7].value = "[Jump to Message](" \o message.url \o ")"

\* sendAlert has been called for the message of handler i
AlertAttempted(i) ==
    \/ handlers[i].pc \in {"fetch", "send"}
    \/ "sendAlert" \in DOMAIN handlers[i] /\ handlers[i].sendAlert
    \/ \E embed \in channel : Reports(embed, handlers[i].message)

\* the message of handler i is one the handler examines: not by a bot, scanning on
Examined(i) == ~arrived[i].author.bot /\ env.MESSAGE_SCAN_ENABLED = "true"

\* the riskScore analyzeMessage gives the message of handler i
ScoreOf(i) ==
    AnalysisOf[[content |-> arrived[i].content,
                sentimentScore |-> arrived[i].sentimentScore], 0].riskScore

\* log write throws gets no alert attempt, even with a riskScore at or above the high
\* threshold.
C26_AlertOnlyAfterWrites ==
    /\ [](\A i \in DOMAIN handlers :
             /\ AlertAttempted(i) =>
                    /\ "threw" \notin DOMAIN handlers[i]
                    /\ handlers[i].message.author.id \in DOMAIN user_profiles
                    /\ \E k \in DOMAIN message_logs :
                           message_logs[k].message_id = handlers[i].message.id
             /\ "threw" \in DOMAIN handlers[i] => ~AlertAttempted(i))
    /\ [][(arrived' # arrived /\ "sendAlert" \in DOMAIN handlers'[Len(handlers')]
              /\ handlers'[Len(handlers')].sendAlert) =>
             LET message == arrived'[Len(arrived')]
                 h == handlers'[Len(handlers')]
             IN  /\ Fields(RowToProfile(message.author.id, user_profiles'[message.author.id]))
                      = Fields(h.updatedProfile)
                 /\ Len(message_logs') = Len(message_logs) + 1
                 /\ message_logs'[Len(message_logs')].message_id = message.id
                 /\ message_logs'[Len(message_logs')].risk_score = h.analysis.riskScore]_vars

C26_Witness ==
    /\ Len(handlers) = 2
    /\ handlers[1].pc = "failed" /\ handlers[1].threw = "logMessage"
    /\ DblCmp(AnalysisOf[[content |-> arrived[1].content,
                          sentimentScore |-> arrived[1].sentimentScore], clock].riskScore,
              ThresholdHigh) >= 0
    /\ arrived[2].author.id = arrived[1].author.id
    /\ handlers[2].pc = "done" /\ handlers[2].sendAlert
    /\ \E embed \in channel : Reports(embed, arrived[2])
    /\ \A embed \in channel : ~Reports(embed, arrived[1])
    /\ Len(message_logs) = 1

\* C27: a message event authored by a bot, or arriving while MESSAGE_SCAN_ENABLED is
\* not 'true', changes nothing: no profile is created or updated, no message-log row
\* is written and no alert is attempted, then or later.
C27_IgnoredMessagesChangeNothing ==
    /\ [][(arrived' # arrived
              /\ (arrived'[Len(arrived')].author.bot \/ env.MESSAGE_SCAN_ENABLED # "true")) =>
             /\ user_profiles' = user_profiles
             /\ message_logs' = message_logs
             /\ sqlite_sequence' = sqlite_sequence
             /\ alerts' = alerts
             /\ channel' = channel
             /\ errors' = errors
             /\ handlers'[Len(handlers')].pc = "skipped"]_vars
    /\ [](\A i \in DOMAIN handlers :
             (arrived[i].author.bot \/ env.MESSAGE_SCAN_ENABLED # "true") =>
                 /\ ~AlertAttempted(i)
                 /\ \A k \in DOMAIN message_logs : message_logs[k].message_id # arrived[i].id)
    /\ []("bot" \notin DOMAIN user_profiles)
    /\ [](env.MESSAGE_SCAN_ENABLED # "true" => message_logs = <<>> /\ channel = {})

C27_Witness ==
    /\ env.MESSAGE_SCAN_ENABLED = "true"
    /\ Len(arrived) = 2
    /\ ~arrived[1].author.bot /\ handlers[1].sendAlert
    /\ arrived[2].author.bot /\ arrived[2].content = arrived[1].content
    /\ handlers[2].pc = "skipped"
    /\ Len(message_logs) = 1
    /\ DOMAIN user_profiles = {arrived[1].author.id}

C27_WitnessScanOff ==
    /\ env.MESSAGE_SCAN_ENABLED = "TRUE"
    /\ Len(arrived) = 2
    /\ ~arrived[1].author.bot /\ ~arrived[2].author.bot
    /\ \A i \in 1 .. 2 :
          DblCmp(AnalysisOf[[content |-> arrived[i].content,
                             sentimentScore |-> arrived[i].sentimentScore], clock].riskScore,
                 ThresholdHigh) >= 0
    /\ user_profiles = <<>> /\ message_logs = <<>> /\ channel = {}

\* C28: a membership-join event creates a zero profile only when USER_TRACKING_ENABLED
\* is 'true' and the member has none; for a member who already has a profile it leaves
\* the stored messageCount, totalRiskScore, averageRiskScore, highRiskCount, flagHistory
\* and trendingUp unchanged (createUserProfile is idempotent on the store).
C28_JoinCreatesOnlyMissingProfile ==
    /\ [][(arrived' = arrived /\ user_profiles' # user_profiles) =>
             /\ env.USER_TRACKING_ENABLED = "true"
             /\ \E memberId \in UserIds :
                   /\ memberId \notin DOMAIN user_profiles
                   /\ DOMAIN user_profiles' = DOMAIN user_profiles \cup {memberId}
                   /\ user_profiles'[memberId].message_count = 0
                   /\ Profiles(user_profiles')[memberId] = ZeroFields
                   /\ \A u \in DOMAIN user_profiles : user_profiles'[u] = user_profiles[u]]_vars
    /\ [][\A memberId \in UserIds :
             GuildMemberAdd(memberId) =>
                 /\ memberId \in DOMAIN user_profiles'
                 /\ \A u \in DOMAIN user_profiles :
                       Profiles(user_profiles')[u] = Profiles(user_profiles)[u]]_vars
    /\ [](env.USER_TRACKING_ENABLED # "true" =>
             \A u \in DOMAIN user_profiles : user_profiles[u].message_count >= 1)

C28_Witness ==
    /\ env.USER_TRACKING_ENABLED = "true"
    /\ Len(arrived) = 2
    /\ arrived[1].author.id = "u1" /\ arrived[2].author.id = "u1"
    /\ handlers[1].pc # "skipped" /\ handlers[2].pc # "skipped"
    /\ DOMAIN user_profiles = {"u1", "u2"}
    /\ user_profiles["u1"].message_count = 2
    /\ user_profiles["u1"].high_risk_count = 1
    /\ Profiles(user_profiles)["u2"] = ZeroFields

C28_WitnessTrackingOff ==
    /\ env.USER_TRACKING_ENABLED = "false"
    /\ Len(arrived) = 2
    /\ DOMAIN user_profiles = {"u1"}
    /\ user_profiles["u1"].message_count = 2

(***************************************************************************)
(* The bot receiving message events whose ids may repeat (SpecRedelivery). *)
(***************************************************************************)
\* the numbers of the ids a delivered message can carry
MessageIds == 1 .. MaxMessages

\* client.on(Events.MessageCreate) for a message by a member, with any of the ids
MessageDelivered ==
    \E id \in MessageIds, userId \in UserIds,
       text \in {t \in MessageTexts : t.sentimentScore \in {0, -9}} :
        MessageCreate(Message(id, Member(userId), text))

NextRedelivery == MessageDelivered \/ MemberJoins

SpecRedelivery == InitIntake /\ [][NextRedelivery]_vars

\* the message_logs rows of an id, and of an author
RowsOfMessage(id) == {k \in DOMAIN message_logs : message_logs[k].message_id = id}
RowsOfAuthor(userId) == {k \in DOMAIN message_logs : message_logs[k].user_id = userId}

DistinctIds == \A i, j \in DOMAIN arrived : arrived[i].id = arrived[j].id => i = j

\* C29: message_logs holds at most one row per message id in every reachable state: a
\* message event whose id is already logged adds no row and leaves the existing row's
\* content, risk score and flags unchanged, although the author's profile is updated
\* again; when all processed message ids are distinct and no step fails, an author's
\* stored messageCount equals the number of message_logs rows of that author.
C29_OneLogRowPerMessage ==
    /\ [](\A i, j \in DOMAIN message_logs :
             message_logs[i].message_id = message_logs[j].message_id => i = j)
    /\ [][(arrived' # arrived /\ RowsOfMessage(arrived'[Len(arrived')].id) # {}) =>
             LET message == arrived'[Len(arrived')]
             IN  /\ message_logs' = message_logs
                 /\ user_profiles'[message.author.id].message_count
                      = StoredCount(user_profiles, message.author.id) + 1]_vars
    /\ [](DistinctIds =>
             \A u \in UserIds :
                 StoredCount(user_profiles, u) = Cardinality(RowsOfAuthor(u)))

C29_Witness ==
    /\ Len(arrived) = 2
    /\ arrived[1].id = "m1" /\ arrived[2].id = "m1"
    /\ arrived[1].author.id = "u1" /\ arrived[2].author.id = "u1"
    /\ arrived[1].content = "hello " /\ arrived[2].content # "hello "
    /\ Len(message_logs) = 1
    /\ message_logs[1].message_id = "m1" /\ message_logs[1].content = "hello "
    /\ message_logs[1].risk_score = DblZero
    /\ sqlite_sequence.message_logs = 2
    /\ user_profiles["u1"].message_count = 2

C29_WitnessDistinct ==
    /\ Len(arrived) = 2 /\ DistinctIds
    /\ arrived[1].author.id = "u1" /\ arrived[2].author.id = "u1"
    /\ user_profiles["u1"].message_count = 2
    /\ Cardinality(RowsOfAuthor("u1")) = 2
    /\ "u2" \in DOMAIN user_profiles

(***************************************************************************)
(* The bot beside direct calls of createAlert and acknowledgeAlert on the  *)
(* same store (SpecLedger).                                                *)
(***************************************************************************)
AlertResolved ==
    \E alertId \in {alerts[i].id : i \in DOMAIN alerts} : CallAcknowledgeAlert(alertId)

NextLedger ==
    \/ HighRiskMessage
    \/ MemberJoins
    \/ FetchSettles
    \/ SendSettles
    \/ AlertRaised
    \/ AlertResolved

SpecLedger == InitFaulty /\ [][NextLedger]_vars

\* a step of the message pipeline or of the join handler
PipelineStep ==
    \/ arrived' # arrived
    \/ handlers' # handlers
    \/ channel' # channel
    \/ errors' # errors
    \/ user_profiles' # user_profiles
    \/ message_logs' # message_logs

\* C30: the message pipeline never writes the alerts table: across every message and
\* membership-join step, those of messages at or above the high threshold and of
\* their sendAlert included, the stored alerts (and so totalAlerts and
\* unacknowledgedAlerts) are unchanged; only createAlert and acknowledgeAlert change
\* them.
C30_PipelineLeavesAlerts ==
    /\ [][PipelineStep =>
             /\ alerts' = alerts
             /\ getStats(user_profiles', message_logs', alerts').totalAlerts
                  = getStats(user_profiles, message_logs, alerts).totalAlerts
             /\ getStats(user_profiles', message_logs', alerts').unacknowledgedAlerts
                  = getStats(user_profiles, message_logs, alerts).unacknowledgedAlerts]_vars
    /\ [][alerts' # alerts =>
             /\ input'.call \in {"createAlert", "acknowledgeAlert"}
             /\ ~PipelineStep]_vars

C30_Witness ==
    /\ Len(arrived) = 2
    /\ \A i \in 1 .. 2 : handlers[i].pc = "done" /\ handlers[i].sendAlert
    /\ Cardinality(channel) >= 1
    /\ Len(alerts) = 2
    /\ alerts[1].acknowledged = 1 /\ alerts[2].acknowledged = 0
    /\ getStats(user_profiles, message_logs, alerts).totalAlerts = 2
    /\ getStats(user_profiles, message_logs, alerts).unacknowledgedAlerts = 1

(***************************************************************************)
(* The aggregator called on its own beside the bot's events (SpecCount):   *)
(* one call of updateRiskProfile on a profile of messages that all scored  *)
(* 0, while messages arrive, some meeting a failure of the store, and      *)
(* members join; no alert channel is configured.                           *)
(***************************************************************************)
CountedProfiles ==
    {Null} \cup
    [messageCount : 0 .. MaxStartCount \cup {LongHistory}, totalRiskScore : {DblZero},
     averageRiskScore : {DblZero}, highRiskCount : {0}, flagHistory : {<<>>},
     lastAnalyzed : {Null}, trendingUp : {FALSE}]

InitCount ==
    /\ env = [DefaultEnv EXCEPT !.ALERT_CHANNEL_ID = <<>>]
    /\ input \in [call : {"updateRiskProfile"}, userProfile : CountedProfiles,
                  analysis : [riskScore : {DblZero, Lit(8, 10)}, flags : {<<>>}]]
    /\ Called

NextCount == ApplyUpdate \/ NewMessage \/ MessageFails \/ MemberJoins

SpecCount == InitCount /\ [][NextCount]_vars

\* C4: every aggregator update increases messageCount by exactly 1, whatever the
\* starting profile (an absent one counts as 0) and whatever the assessment; so the
\* handler of a message stores the author's count plus 1, and no message, failed
\* message or join lowers an author's stored message_count or removes the row.
C4_CountOnlyGrows ==
    /\ [](Updated => After.messageCount = Before.messageCount + 1)
    /\ [][(arrived' # arrived /\ "updatedProfile" \in DOMAIN handlers'[Len(handlers')]) =>
             LET u == arrived'[Len(arrived')].author.id
             IN  /\ handlers'[Len(handlers')].updatedProfile.messageCount
                      = StoredCount(user_profiles, u) + 1
                 /\ StoredCount(user_profiles', u) = StoredCount(user_profiles, u) + 1]_vars
    /\ [][\A u \in UserIds :
             /\ u \in DOMAIN user_profiles => u \in DOMAIN user_profiles'
             /\ StoredCount(user_profiles', u) >= StoredCount(user_profiles, u)]_vars

C4_Witness ==
    /\ Updated
    /\ input.userProfile # Null
    /\ input.userProfile.messageCount = 5
    /\ After.messageCount = 6
    /\ Len(arrived) = 2
    /\ handlers[1].pc = "done" /\ handlers[2].pc = "failed"
    /\ handlers[2].threw = "updateUserProfile"
    /\ arrived[1].author.id = "u1" /\ arrived[2].author.id = "u1"
    /\ user_profiles["u1"].message_count = 1
    /\ "u2" \in DOMAIN user_profiles /\ user_profiles["u2"].message_count = 0
====
